---------------------------- MODULE Spec2Model ----------------------------
(***************************************************************************)
(* The Pratt parser of the Monkey interpreter (src/parser/parser.go).      *)
(*                                                                         *)
(* A Go string is a sequence of one-character strings, a token is a record *)
(* [Type, Literal], an AST node is a record with a "kind" field.  The      *)
(* parser methods are operators that take the Parser struct and return the *)
(* struct after the call together with the value the method returns.       *)
(***************************************************************************)
EXTENDS Integers, Sequences, FiniteSets, TLC

(***************************************************************************)
(* Token kinds (package token).                                            *)
(***************************************************************************)
token_ILLEGAL == "ILLEGAL"
token_EOF == "EOF"
token_IDENT == "IDENT"
token_INT == "INT"
token_STRING == "STRING"
token_ASSIGN == "="
token_PLUS == "+"
token_MINUS == "-"
token_BANG == "!"
token_ASTERISK == "*"
token_SLASH == "/"
token_LT == "<"
token_GT == ">"
token_EQ == "=="
token_NOT_EQ == "!="
token_COMMA == ","
token_SEMICOLON == ";"
token_COLON == ":"
token_LPAREN == "("
token_RPAREN == ")"
token_LBRACE == "{"
token_RBRACE == "}"
token_LBRACKET == "["
token_RBRACKET == "]"
token_FUNCTION == "FUNCTION"
token_LET == "LET"
token_TRUE == "TRUE"
token_FALSE == "FALSE"
token_IF == "IF"
token_ELSE == "ELSE"
token_RETURN == "RETURN"

Token(type, literal) == [Type |-> type, Literal |-> literal]

\* The zero value of token.Token, held by curToken and peekToken before New
\* has read anything.
ZeroToken == Token("", <<>>)

EOFToken == Token(token_EOF, <<>>)

(***************************************************************************)
(* The lexer as the parser sees it: a cursor over the tokens of the input; *)
(* NextToken hands out the next one, and EOF again and again at the end.   *)
(***************************************************************************)
LexerNew(toks) == [input |-> toks, position |-> 0]

LexerNextToken(l) ==
    [lexer |-> [l EXCEPT !.position = @ + 1],
     tok   |-> IF l.position < Len(l.input) THEN l.input[l.position + 1] ELSE EOFToken]

(***************************************************************************)
(* Precedences.                                                            *)
(***************************************************************************)
LOWEST == 1
EQUALS == 2
LESSGREATER == 3
SUM == 4
PRODUCT == 5
PREFIX == 6
CALL == 7
INDEX == 8

\* A Go map as a function on the keys it holds.
EmptyMap == [k \in {} |-> "nil"]

MapPut(m, k, v) == [x \in (DOMAIN m) \cup {k} |-> IF x = k THEN v ELSE m[x]]

\* precedences with the levels of + - and of * / exchanged.
precedencesSumAboveProduct ==
    [t \in {token_EQ, token_NOT_EQ, token_LT, token_GT, token_PLUS, token_MINUS,
            token_SLASH, token_ASTERISK, token_LPAREN, token_LBRACKET} |->
        CASE t \in {token_EQ, token_NOT_EQ} -> EQUALS
          [] t \in {token_LT, token_GT} -> LESSGREATER
          [] t \in {token_PLUS, token_MINUS} -> PRODUCT
          [] t \in {token_SLASH, token_ASTERISK} -> SUM
          [] t = token_LPAREN -> CALL
          [] t = token_LBRACKET -> INDEX]

precedences ==
    [t \in {token_EQ, token_NOT_EQ, token_LT, token_GT, token_PLUS, token_MINUS,
            token_SLASH, token_ASTERISK, token_LPAREN, token_LBRACKET} |->
        CASE t \in {token_EQ, token_NOT_EQ} -> EQUALS
          [] t \in {token_LT, token_GT} -> LESSGREATER
          [] t \in {token_PLUS, token_MINUS} -> SUM
          [] t \in {token_SLASH, token_ASTERISK} -> PRODUCT
          [] t = token_LPAREN -> CALL
          [] t = token_LBRACKET -> INDEX]

(***************************************************************************)
(* Go values: the nil interface, the nil pointer, slices and maps.         *)
(***************************************************************************)
\* The nil interface value (ast.Expression(nil), ast.Statement(nil)).
Nil == [kind |-> "nil"]

\* A nil pointer (*ast.LetStatement)(nil).
NilPtr == [kind |-> "nilptr"]

\* An interface value holding a pointer of dynamic type dyn: it differs from
\* Nil also when the pointer it holds is NilPtr.
Iface(dyn, ptr) == [kind |-> "iface", dyn |-> dyn, ptr |-> ptr]

\* A slice: nil, or a (possibly empty) sequence.
NilSlice == [isNil |-> TRUE, elems |-> <<>>]

Slice(s) == [isNil |-> FALSE, elems |-> s]

\* Go's append: append to a nil slice gives a non-nil one.
Append_(sl, x) == Slice(Append(sl.elems, x))

\* A map[ast.Expression]ast.Expression: nil until made.  Keys are interface
\* values compared by pointer identity, so two nodes never collide and the
\* only key that can repeat is Nil.  entries is in insertion order; Go does
\* not expose that order.
NilMap == [isNil |-> TRUE, entries |-> <<>>]

MakeMap == [isNil |-> FALSE, entries |-> <<>>]

RECURSIVE DropNilKey(_)
DropNilKey(es) ==
    IF es = <<>> THEN <<>>
    ELSE IF Head(es).key = Nil THEN DropNilKey(Tail(es))
         ELSE <<Head(es)>> \o DropNilKey(Tail(es))

(***************************************************************************)
(* The Parser struct.  trace and panicked are not fields of the Go struct: *)
(* trace records the calls of expectPeek, parseExpression (to the lookup of *)
(* the prefix handler), parseIntegerLiteral and parseExpressionStatement,  *)
(* the advances of the loop of parseExpression, of parseGroupedExpression  *)
(* the step from the parsed expression to the return, of                   *)
(* parseIfExpression the step from the end of the consequence to the       *)
(* alternative's { (or to the return, where there is no else), of          *)
(* parseBlockStatement the call, from the { to the token that ends its     *)
(* loop, and of parseFunctionParameters the call with the list returned;   *)
(* panicked that a run-time panic happened.                                *)
(***************************************************************************)
Event(ev, want, before, after, ok, ret) ==
    [ev |-> ev, want |-> want,
     cur0 |-> before.curToken, peek0 |-> before.peekToken, nerr0 |-> Len(before.errors),
     cur1 |-> after.curToken, peek1 |-> after.peekToken, nerr1 |-> Len(after.errors),
     pos0 |-> before.lexer.position, pos1 |-> after.lexer.position,
     ok |-> ok, ret |-> ret]

Log(p, e) == [p EXCEPT !.trace = Append(@, e)]

Ret(p, node) == [p |-> p, node |-> node]

\* x := value, then the rest of the body, in which x stands for the value.
With(value, Rest(_)) == CHOOSE result \in {Rest(x) : x \in {value}} : TRUE

\* nextToken that reads two tokens of the lexer and drops the first.
nextTokenReadingTwice(parser) ==
    LET n == LexerNextToken(LexerNextToken(parser.lexer).lexer)
    IN [parser EXCEPT !.curToken = parser.peekToken,
                      !.peekToken = n.tok,
                      !.lexer = n.lexer]

nextToken(parser) ==
    LET n == LexerNextToken(parser.lexer)
    IN [parser EXCEPT !.curToken = parser.peekToken,
                      !.peekToken = n.tok,
                      !.lexer = n.lexer]

curTokenIs(parser, t) == parser.curToken.Type = t

peekTokenIs(parser, t) == parser.peekToken.Type = t

\* fmt.Sprintf("expected next token to be %s, got %s instead", ...)
PeekErrorMsg(t, got) == <<"expected next token to be ", t, ", got ", got, " instead">>

\* peekError that names the current token instead of the peek token.
peekErrorCurToken(parser, t) ==
    [parser EXCEPT !.errors = Append(@, PeekErrorMsg(t, parser.curToken.Type))]

peekError(parser, t) ==
    [parser EXCEPT !.errors = Append(@, PeekErrorMsg(t, parser.peekToken.Type))]

\* expectPeek that steps over the token that did not match.
expectPeekBodyConsuming(parser, t) ==
    IF peekTokenIs(parser, t)
    THEN [p |-> nextToken(parser), ok |-> TRUE]
    ELSE [p |-> nextToken(peekError(parser, t)), ok |-> FALSE]

expectPeekBody(parser, t) ==
    IF peekTokenIs(parser, t)
    THEN [p |-> nextToken(parser), ok |-> TRUE]
    ELSE [p |-> peekError(parser, t), ok |-> FALSE]

expectPeek(parser, t) ==
    LET r == expectPeekBody(parser, t)
    IN [p  |-> Log(r.p, Event("expectPeek", t, parser, r.p, r.ok, Nil)),
        ok |-> r.ok]

\* fmt.Sprintf("no prefix parse function for %s found", tokenType)
NoPrefixMsg(tokenType) == <<"no prefix parse function for ", tokenType, " found">>

noPrefixPerseFnErrror(parser, tokenType) ==
    [parser EXCEPT !.errors = Append(@, NoPrefixMsg(tokenType))]

getPrecedence(tokenType) ==
    IF tokenType \in DOMAIN precedences THEN precedences[tokenType] ELSE LOWEST

peekPrecedence(parser) == getPrecedence(parser.peekToken.Type)

curPrecendence(parser) == getPrecedence(parser.curToken.Type)

registerPrefixFn(parser, tokkenType, fn) ==
    [parser EXCEPT !.prefixParseFn = MapPut(@, tokkenType, fn)]

registerInfixFn(parser, tokkenType, fn) ==
    [parser EXCEPT !.infixParseFn = MapPut(@, tokkenType, fn)]

\* m[k] of a Go map of functions: nil for a key the map does not hold.
FnLookup(m, k) == IF k \in DOMAIN m THEN m[k] ELSE "nil"


(***************************************************************************)
(* strconv.ParseInt(s, 0, 64) on the literal of an INT token.  The value   *)
(* of an IntegerLiteral is a sequence of decimal digits, most significant  *)
(* first, without leading zeros (<<0>> is zero): 64 bits do not fit the    *)
(* integers of TLC.                                                        *)
(***************************************************************************)
Digits == {"0", "1", "2", "3", "4", "5", "6", "7", "8", "9"}

DigitVal(c) ==
    CASE c = "0" -> 0 [] c = "1" -> 1 [] c = "2" -> 2 [] c = "3" -> 3 [] c = "4" -> 4
      [] c = "5" -> 5 [] c = "6" -> 6 [] c = "7" -> 7 [] c = "8" -> 8 [] c = "9" -> 9
      [] OTHER -> 36

\* A 64-bit value in the model of ParseUint: three limbs <<hi, mid, lo>> of
\* eight decimal digits each, hi * 10^16 + mid * 10^8 + lo.
Limb == 100000000

\* n * b + d, for b <= 10 and d < 10
MulAdd(n, b, d) ==
    LET lo == n[3] * b + d
        mid == n[2] * b + (lo \div Limb)
        hi == n[1] * b + (mid \div Limb)
    IN <<hi, mid % Limb, lo % Limb>>

Less(a, b) ==
    \/ a[1] < b[1]
    \/ a[1] = b[1] /\ a[2] < b[2]
    \/ a[1] = b[1] /\ a[2] = b[2] /\ a[3] < b[3]

\* 1<<64 - 1 = 18446744073709551615 and 1<<63 - 1 = 9223372036854775807
MaxUint64 == <<1844, 67440737, 9551615>>

MaxInt64 == <<922, 33720368, 54775807>>

\* The digit loop of strconv.ParseUint: the first digit that is not one of
\* the base, or the first step that leaves 64 bits, ends it.
RECURSIVE ParseUintLoop(_, _, _, _)
ParseUintLoop(s, i, base, n) ==
    CASE i > Len(s) -> [value |-> n, err |-> "nil"]
      [] i <= Len(s) /\ DigitVal(s[i]) >= base ->
            [value |-> <<0, 0, 0>>, err |-> "ErrSyntax"]
      [] OTHER ->
            With(MulAdd(n, base, DigitVal(s[i])), LAMBDA n1 :
            IF Less(MaxUint64, n1) THEN [value |-> MaxUint64, err |-> "ErrRange"]
            ELSE ParseUintLoop(s, i + 1, base, n1))

\* Base 0: a leading "0" selects base 8 (the literal of an INT token holds
\* digits only, so the prefixes 0x, 0o, 0b and the underscores never occur).
ParseUintBase0(s) ==
    IF s = <<>> THEN [value |-> <<0, 0, 0>>, err |-> "ErrSyntax"]
    ELSE IF Head(s) = "0" THEN ParseUintLoop(Tail(s), 1, 8, <<0, 0, 0>>)
         ELSE ParseUintLoop(s, 1, 10, <<0, 0, 0>>)

\* The int64 as its decimal digits, most significant first, without leading
\* zeros (<<0>> is zero).
DecimalDigits(n) ==
    LET all == [k \in 1..24 |->
                    LET limb == n[(k + 7) \div 8]
                        place == <<10000000, 1000000, 100000, 10000, 1000, 100, 10, 1>>
                    IN (limb \div place[((k - 1) % 8) + 1]) % 10]
        lead == IF \A k \in 1..24 : all[k] = 0 THEN 24
                ELSE CHOOSE k \in 1..24 : all[k] # 0 /\ \A j \in 1..(k - 1) : all[j] = 0
    IN SubSeq(all, lead, 24)

ParseInt(s) ==
    LET u == ParseUintBase0(s)
    IN IF u.err = "ErrSyntax" THEN [value |-> <<0>>, err |-> "ErrSyntax"]
       ELSE IF u.err = "ErrRange" \/ Less(MaxInt64, u.value)
            THEN [value |-> DecimalDigits(MaxInt64), err |-> "ErrRange"]
            ELSE [value |-> DecimalDigits(u.value), err |-> "nil"]

\* fmt's %q of a string of digits: the string in double quotes.
Quote(s) == <<"\"">> \o s \o <<"\"">>

\* The message formatted with %s instead of %q.
CouldNotParseMsgUnquoted(literal) == <<"could not parse ">> \o literal \o <<" as integer">>

\* fmt.Sprintf("could not parse %q as integer", literal)
CouldNotParseMsg(literal) == <<"could not parse ">> \o Quote(literal) \o <<" as integer">>

(***************************************************************************)
(* New: reads two tokens and registers the handlers.                       *)
(***************************************************************************)
\* The registrations without the one of token.STRING.
PrefixRegistrationsWithoutString ==
    << <<token_IDENT, "parseIdentifier">>,
       <<token_INT, "parseIntegerLiteral">>,
       <<token_BANG, "parsePrefixExpression">>,
       <<token_MINUS, "parsePrefixExpression">>,
       <<token_TRUE, "parseBoolean">>,
       <<token_FALSE, "parseBoolean">>,
       <<token_LPAREN, "parseGroupedExpression">>,
       <<token_IF, "parseIfExpression">>,
       <<token_FUNCTION, "parseFunctionLiteral">>,
       <<token_LBRACKET, "parseArrayLiteral">>,
       <<token_LBRACE, "parseHashLiteral">> >>

PrefixRegistrations ==
    << <<token_IDENT, "parseIdentifier">>,
       <<token_INT, "parseIntegerLiteral">>,
       <<token_BANG, "parsePrefixExpression">>,
       <<token_MINUS, "parsePrefixExpression">>,
       <<token_TRUE, "parseBoolean">>,
       <<token_FALSE, "parseBoolean">>,
       <<token_LPAREN, "parseGroupedExpression">>,
       <<token_IF, "parseIfExpression">>,
       <<token_FUNCTION, "parseFunctionLiteral">>,
       <<token_STRING, "parseStringLiteral">>,
       <<token_LBRACKET, "parseArrayLiteral">>,
       <<token_LBRACE, "parseHashLiteral">> >>

InfixRegistrations ==
    << <<token_PLUS, "parseInfixExpression">>,
       <<token_MINUS, "parseInfixExpression">>,
       <<token_SLASH, "parseInfixExpression">>,
       <<token_ASTERISK, "parseInfixExpression">>,
       <<token_EQ, "parseInfixExpression">>,
       <<token_NOT_EQ, "parseInfixExpression">>,
       <<token_LT, "parseInfixExpression">>,
       <<token_GT, "parseInfixExpression">>,
       <<token_LPAREN, "parseCallExpression">>,
       <<token_LBRACKET, "parseIndexExpression">> >>

RECURSIVE RegisterAllPrefix(_, _, _)
RegisterAllPrefix(parser, regs, i) ==
    IF i > Len(regs) THEN parser
    ELSE RegisterAllPrefix(registerPrefixFn(parser, regs[i][1], regs[i][2]), regs, i + 1)

RECURSIVE RegisterAllInfix(_, _, _)
RegisterAllInfix(parser, regs, i) ==
    IF i > Len(regs) THEN parser
    ELSE RegisterAllInfix(registerInfixFn(parser, regs[i][1], regs[i][2]), regs, i + 1)

New(lexer) ==
    LET parser0 == [lexer |-> lexer, errors |-> <<>>,
                    curToken |-> ZeroToken, peekToken |-> ZeroToken,
                    prefixParseFn |-> EmptyMap, infixParseFn |-> EmptyMap,
                    trace |-> <<>>, panicked |-> FALSE]
        parser2 == nextToken(nextToken(parser0))
    IN RegisterAllInfix(RegisterAllPrefix(parser2, PrefixRegistrations, 1),
                        InfixRegistrations, 1)

(***************************************************************************)
(* The parse methods.  Each returns [p |-> the parser after the call,      *)
(* node |-> the value returned].                                           *)
(***************************************************************************)
RECURSIVE parseExpression(_, _)
RECURSIVE parseExpressionLoop(_, _, _)
RECURSIVE CallPrefixFn(_, _)
RECURSIVE CallInfixFn(_, _, _)
RECURSIVE parsePrefixExpression(_)
RECURSIVE parseInfixExpression(_, _)
RECURSIVE parseGroupedExpression(_)
RECURSIVE parseIfExpression(_)
RECURSIVE parseBlockStatement(_)
RECURSIVE parseBlockStatementLoop(_, _)
RECURSIVE parseFunctionLiteral(_)
RECURSIVE parseCallExpression(_, _)
RECURSIVE parseArrayLiteral(_)
RECURSIVE parseExpressionList(_, _)
RECURSIVE parseExpressionListLoop(_, _)
RECURSIVE parseIndexExpression(_, _)
RECURSIVE parseHashLiteral(_)
RECURSIVE parseHashLiteralLoop(_, _)
RECURSIVE parseStatement(_)
RECURSIVE parseLetStatement(_)
RECURSIVE parseReturnStatement(_)
RECURSIVE parseExpressionStatement(_)

parseIdentifier(parser) ==
    Ret(parser, [kind |-> "Identifier", Token |-> parser.curToken,
                 Value |-> parser.curToken.Literal])

parseIntegerLiteral(parser) ==
    With(ParseInt(parser.curToken.Literal), LAMBDA r :
    LET p1 == IF r.err # "nil"
              THEN [parser EXCEPT !.errors =
                        Append(@, CouldNotParseMsg(parser.curToken.Literal))]
              ELSE parser
        integerLiteral == [kind |-> "IntegerLiteral", Token |-> parser.curToken,
                           Value |-> r.value]
    IN Ret(Log(p1, Event("parseIntegerLiteral", "", parser, p1, r.err = "nil",
                         integerLiteral)),
           integerLiteral))

parseBoolean(parser) ==
    Ret(parser, [kind |-> "Boolean", Token |-> parser.curToken,
                 Value |-> curTokenIs(parser, token_TRUE)])

parseStringLiteral(p) ==
    Ret(p, [kind |-> "StringLiteral", Token |-> p.curToken, Value |-> p.curToken.Literal])

\* leftExpression := prefix()
CallPrefixFn(fn, parser) ==
    CASE fn = "parseIdentifier" -> parseIdentifier(parser)
      [] fn = "parseIntegerLiteral" -> parseIntegerLiteral(parser)
      [] fn = "parsePrefixExpression" -> parsePrefixExpression(parser)
      [] fn = "parseBoolean" -> parseBoolean(parser)
      [] fn = "parseGroupedExpression" -> parseGroupedExpression(parser)
      [] fn = "parseIfExpression" -> parseIfExpression(parser)
      [] fn = "parseFunctionLiteral" -> parseFunctionLiteral(parser)
      [] fn = "parseStringLiteral" -> parseStringLiteral(parser)
      [] fn = "parseArrayLiteral" -> parseArrayLiteral(parser)
      [] fn = "parseHashLiteral" -> parseHashLiteral(parser)

\* leftExpression = infix(leftExpression)
CallInfixFn(fn, parser, left) ==
    CASE fn = "parseInfixExpression" -> parseInfixExpression(parser, left)
      [] fn = "parseCallExpression" -> parseCallExpression(parser, left)
      [] fn = "parseIndexExpression" -> parseIndexExpression(parser, left)

\* The for loop of parseExpression.
parseExpressionLoop(parser, leftExpression, precedence) ==
    IF ~peekTokenIs(parser, token_SEMICOLON) /\ precedence < peekPrecedence(parser)
    THEN LET infix == FnLookup(parser.infixParseFn, parser.peekToken.Type)
         IN IF infix = "nil" THEN Ret(parser, leftExpression)
            ELSE With(nextToken(parser), LAMBDA p1 :
                 With(CallInfixFn(infix, Log(p1, Event("advance", "", parser, p1, TRUE,
                                                       leftExpression)),
                                  leftExpression), LAMBDA r :
                 parseExpressionLoop(r.p, r.node, precedence)))
    ELSE Ret(parser, leftExpression)

parseExpression(parser, precedence) ==
    LET prefix == FnLookup(parser.prefixParseFn, parser.curToken.Type)
    IN IF prefix = "nil"
       THEN LET p1 == noPrefixPerseFnErrror(parser, parser.curToken.Type)
            IN Ret(Log(p1, Event("parseExpression", "", parser, p1, FALSE, Nil)), Nil)
       ELSE With(Log(parser, Event("parseExpression", "", parser, parser, TRUE,
                                   [kind |-> "pending"])), LAMBDA p1 :
            With(CallPrefixFn(prefix, p1), LAMBDA l :
            parseExpressionLoop(l.p, l.node, precedence)))

\* The operand of the prefix operator parsed at LOWEST.
parsePrefixExpressionAtLowest(parser) ==
    With(parseExpression(nextToken(parser), LOWEST), LAMBDA r :
    Ret(r.p, [kind |-> "PrefixExpression", Token |-> parser.curToken,
              Operator |-> parser.curToken.Literal, Right |-> r.node]))

parsePrefixExpression(parser) ==
    With(parseExpression(nextToken(parser), PREFIX), LAMBDA r :
    Ret(r.p, [kind |-> "PrefixExpression", Token |-> parser.curToken,
              Operator |-> parser.curToken.Literal, Right |-> r.node]))

\* parseInfixExpression with the floor of the right operand one below the
\* operator's own precedence.
parseInfixExpressionOneBelow(parser, left) ==
    LET precedence == curPrecendence(parser) - 1
    IN With(parseExpression(nextToken(parser), precedence), LAMBDA r :
       Ret(r.p, [kind |-> "InfixExpression", Token |-> parser.curToken,
                 Operator |-> parser.curToken.Literal, Left |-> left, Right |-> r.node]))

parseInfixExpression(parser, left) ==
    LET precedence == curPrecendence(parser)
    IN With(parseExpression(nextToken(parser), precedence), LAMBDA r :
       Ret(r.p, [kind |-> "InfixExpression", Token |-> parser.curToken,
                 Operator |-> parser.curToken.Literal, Left |-> left, Right |-> r.node]))

\* The group parsed at PREFIX: an operator inside the parentheses is left over.
parseGroupedExpressionAtPrefix(parser) ==
    With(parseExpression(nextToken(parser), PREFIX), LAMBDA r :
    With(expectPeek(r.p, token_RPAREN), LAMBDA e :
    With(IF ~e.ok THEN Nil ELSE r.node, LAMBDA expression :
    Ret(Log(e.p, Event("parseGroupedExpression", token_RPAREN, r.p, e.p, e.ok,
                       expression)),
        expression))))

\* The group as a node of its own around the expression.
parseGroupedExpressionOwnNode(parser) ==
    With(parseExpression(nextToken(parser), LOWEST), LAMBDA r :
    With(expectPeek(r.p, token_RPAREN), LAMBDA e :
    With(IF ~e.ok THEN Nil
         ELSE [kind |-> "GroupedExpression", Token |-> parser.curToken,
               Expression |-> r.node], LAMBDA expression :
    Ret(Log(e.p, Event("parseGroupedExpression", token_RPAREN, r.p, e.p, e.ok,
                       expression)),
        expression))))

parseGroupedExpression(parser) ==
    With(parseExpression(nextToken(parser), LOWEST), LAMBDA r :
    With(expectPeek(r.p, token_RPAREN), LAMBDA e :
    With(IF ~e.ok THEN Nil ELSE r.node, LAMBDA expression :
    Ret(Log(e.p, Event("parseGroupedExpression", token_RPAREN, r.p, e.p, e.ok,
                       expression)),
        expression))))

\* The for loop of parseBlockStatement; stmts is block.Statements.
parseBlockStatementLoop(p, stmts) ==
    IF ~curTokenIs(p, token_RBRACE) /\ ~curTokenIs(p, token_EOF)
    THEN With(parseStatement(p), LAMBDA r :
         parseBlockStatementLoop(nextToken(r.p),
                                 IF r.node # Nil THEN Append(stmts, r.node) ELSE stmts))
    ELSE [p |-> p, stmts |-> stmts]

parseBlockStatement(p) ==
    With(parseBlockStatementLoop(nextToken(p), <<>>), LAMBDA r :
    With([kind |-> "BlockStatement", Token |-> p.curToken, Statements |-> r.stmts],
         LAMBDA block :
    Ret(Log(r.p, Event("parseBlockStatement", token_RBRACE, p, r.p,
                       curTokenIs(r.p, token_RBRACE), block)),
        block)))

\* parseIfExpression that returns after the consequence.
parseIfExpressionWithoutElse(p) ==
    With(expectPeek(p, token_LPAREN), LAMBDA e1 :
    IF ~e1.ok THEN Ret(e1.p, Nil)
    ELSE
    With(parseExpression(nextToken(e1.p), LOWEST), LAMBDA c :
    With(expectPeek(c.p, token_RPAREN), LAMBDA e2 :
    IF ~e2.ok THEN Ret(e2.p, Nil)
    ELSE
    With(expectPeek(e2.p, token_LBRACE), LAMBDA e3 :
    IF ~e3.ok THEN Ret(e3.p, Nil)
    ELSE
    With(parseBlockStatement(e3.p), LAMBDA cons :
    With([kind |-> "IfExpression", Token |-> p.curToken, Condition |-> c.node,
          Consequence |-> cons.node, Alternative |-> NilPtr], LAMBDA expression :
    Ret(Log(cons.p, Event("parseIfExpression", token_ELSE, cons.p, cons.p, TRUE,
                          expression)),
        expression)))))))

parseIfExpression(p) ==
    With(expectPeek(p, token_LPAREN), LAMBDA e1 :
    IF ~e1.ok THEN Ret(e1.p, Nil)
    ELSE
    With(parseExpression(nextToken(e1.p), LOWEST), LAMBDA c :
    With(expectPeek(c.p, token_RPAREN), LAMBDA e2 :
    IF ~e2.ok THEN Ret(e2.p, Nil)
    ELSE
    With(expectPeek(e2.p, token_LBRACE), LAMBDA e3 :
    IF ~e3.ok THEN Ret(e3.p, Nil)
    ELSE
    With(parseBlockStatement(e3.p), LAMBDA cons :
    With([kind |-> "IfExpression", Token |-> p.curToken, Condition |-> c.node,
          Consequence |-> cons.node, Alternative |-> NilPtr], LAMBDA expression :
    IF peekTokenIs(cons.p, token_ELSE)
    THEN With(expectPeek(nextToken(cons.p), token_LBRACE), LAMBDA e4 :
         IF ~e4.ok
         THEN Ret(Log(e4.p, Event("parseIfExpression", token_ELSE, cons.p, e4.p, FALSE,
                                  Nil)),
                  Nil)
         ELSE With(parseBlockStatement(e4.p), LAMBDA alt :
              With([expression EXCEPT !.Alternative = alt.node], LAMBDA withElse :
              Ret(Log(alt.p, Event("parseIfExpression", token_ELSE, cons.p, e4.p, TRUE,
                                   withElse)),
                  withElse))))
    ELSE Ret(Log(cons.p, Event("parseIfExpression", token_ELSE, cons.p, cons.p, TRUE,
                               expression)),
             expression)))))))

\* The for loop of parseFunctionParameters.
RECURSIVE parseFunctionParametersLoop(_, _)
parseFunctionParametersLoop(p, identifiers) ==
    IF peekTokenIs(p, token_COMMA)
    THEN With(nextToken(nextToken(p)), LAMBDA p2 :
         parseFunctionParametersLoop(p2,
             Append_(identifiers, [kind |-> "Identifier", Token |-> p2.curToken,
                                   Value |-> p2.curToken.Literal])))
    ELSE [p |-> p, list |-> identifiers]

\* The return of parseFunctionParameters, recorded in the trace.
ReturnParameters(p, after, list) ==
    [p |-> Log(after, Event("parseFunctionParameters", token_RPAREN, p, after,
                            list # NilSlice, list)),
     list |-> list]

parseFunctionParameters(p) ==
    IF peekTokenIs(p, token_RPAREN)
    THEN With(nextToken(p), LAMBDA p1 : ReturnParameters(p, p1, Slice(<<>>)))
    ELSE With(nextToken(p), LAMBDA p1 :
         With(parseFunctionParametersLoop(p1,
                  Slice(<<[kind |-> "Identifier", Token |-> p1.curToken,
                           Value |-> p1.curToken.Literal]>>)), LAMBDA l :
         With(expectPeek(l.p, token_RPAREN), LAMBDA e :
         IF ~e.ok THEN ReturnParameters(p, e.p, NilSlice)
         ELSE ReturnParameters(p, e.p, l.list))))

parseFunctionLiteral(p) ==
    With(expectPeek(p, token_LPAREN), LAMBDA e1 :
    IF ~e1.ok THEN Ret(e1.p, Nil)
    ELSE
    With(parseFunctionParameters(e1.p), LAMBDA params :
    With(expectPeek(params.p, token_LBRACE), LAMBDA e2 :
    IF ~e2.ok THEN Ret(e2.p, Nil)
    ELSE With(parseBlockStatement(e2.p), LAMBDA body :
         Ret(body.p, [kind |-> "FunctionLiteral", Token |-> p.curToken,
                      Parameters |-> params.list, Body |-> body.node])))))

\* The loop that puts each further expression in front of the list.
parseExpressionListLoopPrepending(p, list) ==
    IF peekTokenIs(p, token_COMMA)
    THEN With(parseExpression(nextToken(nextToken(p)), LOWEST), LAMBDA r :
         parseExpressionListLoop(r.p, Slice(<<r.node>> \o list.elems)))
    ELSE [p |-> p, list |-> list]

\* The for loop of parseExpressionList.
parseExpressionListLoop(p, list) ==
    IF peekTokenIs(p, token_COMMA)
    THEN With(parseExpression(nextToken(nextToken(p)), LOWEST), LAMBDA r :
         parseExpressionListLoop(r.p, Append_(list, r.node)))
    ELSE [p |-> p, list |-> list]

parseExpressionList(p, end) ==
    IF peekTokenIs(p, end)
    THEN [p |-> nextToken(p), list |-> Slice(<<>>)]
    ELSE With(parseExpression(nextToken(p), LOWEST), LAMBDA first :
         With(parseExpressionListLoop(first.p, Slice(<<first.node>>)), LAMBDA l :
         With(expectPeek(l.p, end), LAMBDA e :
         IF ~e.ok THEN [p |-> e.p, list |-> NilSlice]
         ELSE [p |-> e.p, list |-> l.list])))

parseCallExpression(p, function) ==
    With(parseExpressionList(p, token_RPAREN), LAMBDA args :
    Ret(args.p, [kind |-> "CallExpression", Token |-> p.curToken,
                 Function |-> function, Arguments |-> args.list]))

parseArrayLiteral(p) ==
    With(parseExpressionList(p, token_RBRACKET), LAMBDA elems :
    Ret(elems.p, [kind |-> "ArrayLiteral", Token |-> p.curToken,
                  Elements |-> elems.list]))

parseIndexExpression(p, left) ==
    With(parseExpression(nextToken(p), LOWEST), LAMBDA r :
    With(expectPeek(r.p, token_RBRACKET), LAMBDA e :
    IF ~e.ok THEN Ret(e.p, Nil)
    ELSE Ret(e.p, [kind |-> "IndexExpression", Token |-> p.curToken,
                   Left |-> left, Index |-> r.node])))

\* The map with the keys compared by what they spell: a key equal to an
\* earlier one overwrites its pair.
MapAssignByValue(p, pairs, key, value) ==
    IF pairs.isNil THEN [p |-> [p EXCEPT !.panicked = TRUE], pairs |-> pairs]
    ELSE [p |-> p,
          pairs |-> [pairs EXCEPT !.entries =
                        Append(SelectSeq(@, LAMBDA en : en.key # key),
                               [key |-> key, value |-> value])]]

\* hash.Pairs[key] = value: a write to a nil map panics; a key the map holds
\* already (only Nil can be one) is overwritten.
MapAssign(p, pairs, key, value) ==
    IF pairs.isNil THEN [p |-> [p EXCEPT !.panicked = TRUE], pairs |-> pairs]
    ELSE [p |-> p,
          pairs |-> [pairs EXCEPT !.entries =
                        Append(IF key = Nil THEN DropNilKey(@) ELSE @,
                               [key |-> key, value |-> value])]]

\* hash.Pairs left nil.
HashLiteralPairsNotMade == NilMap

\* hash.Pairs = make(map[ast.Expression]ast.Expression)
HashLiteralPairsInit == MakeMap

\* The for loop of parseHashLiteral; the result's failed says that the loop
\* left through one of its two "return nil".
parseHashLiteralLoop(p, pairs) ==
    IF ~peekTokenIs(p, token_RBRACE)
    THEN With(parseExpression(nextToken(p), LOWEST), LAMBDA key :
         With(expectPeek(key.p, token_COLON), LAMBDA e1 :
         IF ~e1.ok THEN [p |-> e1.p, pairs |-> pairs, failed |-> TRUE]
         ELSE
         With(parseExpression(nextToken(e1.p), LOWEST), LAMBDA value :
         With(MapAssign(value.p, pairs, key.node, value.node), LAMBDA m :
         IF peekTokenIs(m.p, token_RBRACE)
         THEN parseHashLiteralLoop(m.p, m.pairs)
         ELSE With(expectPeek(m.p, token_COMMA), LAMBDA e2 :
              IF ~e2.ok THEN [p |-> e2.p, pairs |-> m.pairs, failed |-> TRUE]
              ELSE parseHashLiteralLoop(e2.p, m.pairs))))))
    ELSE [p |-> p, pairs |-> pairs, failed |-> FALSE]

parseHashLiteral(p) ==
    With(parseHashLiteralLoop(p, HashLiteralPairsInit), LAMBDA l :
    IF l.failed THEN Ret(l.p, Nil)
    ELSE With(expectPeek(l.p, token_RBRACE), LAMBDA e :
         IF ~e.ok THEN Ret(e.p, Nil)
         ELSE Ret(e.p, [kind |-> "HashLiteral", Token |-> p.curToken,
                        Pairs |-> l.pairs])))

(***************************************************************************)
(* Statements.  parseLetStatement returns a *ast.LetStatement, which       *)
(* parseStatement converts to the interface ast.Statement.                 *)
(***************************************************************************)
\* The statement that leaves the ; to the caller.
SkipSemicolonNever(p) == p

\* The statement that takes every ; that follows.
RECURSIVE SkipSemicolonAll(_)
SkipSemicolonAll(p) ==
    IF peekTokenIs(p, token_SEMICOLON) THEN SkipSemicolonAll(nextToken(p)) ELSE p

\* if parser.peekTokenIs(token.SEMICOLON) { parser.nextToken() }
SkipSemicolon(p) == IF peekTokenIs(p, token_SEMICOLON) THEN nextToken(p) ELSE p

parseLetStatement(p) ==
    With(expectPeek(p, token_IDENT), LAMBDA e1 :
    IF ~e1.ok THEN Ret(e1.p, NilPtr)
    ELSE
    With(expectPeek(e1.p, token_ASSIGN), LAMBDA e2 :
    IF ~e2.ok THEN Ret(e2.p, NilPtr)
    ELSE
    With(parseExpression(nextToken(e2.p), LOWEST), LAMBDA v :
    Ret(SkipSemicolon(v.p),
        [kind |-> "LetStatement", Token |-> p.curToken,
         Name |-> [kind |-> "Identifier", Token |-> e1.p.curToken,
                   Value |-> e1.p.curToken.Literal],
         Value |-> v.node]))))

parseReturnStatement(p) ==
    With(parseExpression(nextToken(p), LOWEST), LAMBDA v :
    Ret(SkipSemicolon(v.p),
        [kind |-> "ReturnStatement", Token |-> p.curToken, ReturnValue |-> v.node]))

parseExpressionStatement(parser) ==
    With(parseExpression(parser, LOWEST), LAMBDA v :
    With(SkipSemicolon(v.p), LAMBDA p1 :
    Ret(Log(p1, Event("parseExpressionStatement", "", v.p, p1, TRUE, v.node)),
        [kind |-> "ExpressionStatement", Token |-> parser.curToken,
         Expression |-> v.node])))

\* The conversion of a returned pointer to the interface ast.Statement.
ToStatement(dyn, r) == Ret(r.p, Iface(dyn, r.node))

parseStatement(parser) ==
    CASE parser.curToken.Type = token_LET ->
            ToStatement("*ast.LetStatement", parseLetStatement(parser))
      [] parser.curToken.Type = token_RETURN ->
            ToStatement("*ast.ReturnStatement", parseReturnStatement(parser))
      [] OTHER ->
            ToStatement("*ast.ExpressionStatement", parseExpressionStatement(parser))

(***************************************************************************)
(* ParseProgram as a state machine: New has run in the initial state, one  *)
(* step enters ParseProgram, one step is one iteration of its loop, one    *)
(* step returns.                                                           *)
(***************************************************************************)
VARIABLES
    parser,     \* the Parser struct
    program,    \* the *ast.Program under construction (NilPtr before ParseProgram)
    pc,         \* "New", "loop", "done", "panic", "printed"
    text,       \* the last re-print of program (a string)
    first,      \* the first parse and its re-print, once the re-print is parsed again
    round       \* 1: the parse of the input, 2: the parse of its re-print

vars == <<parser, program, pc, text, first, round>>

\* The tokens of the fixed lexemes.
Lexeme(type) ==
    CASE type = token_EQ -> <<"=", "=">>
      [] type = token_NOT_EQ -> <<"!", "=">>
      [] type = token_FUNCTION -> <<"f", "n">>
      [] type = token_LET -> <<"l", "e", "t">>
      [] type = token_TRUE -> <<"t", "r", "u", "e">>
      [] type = token_FALSE -> <<"f", "a", "l", "s", "e">>
      [] type = token_IF -> <<"i", "f">>
      [] type = token_ELSE -> <<"e", "l", "s", "e">>
      [] type = token_RETURN -> <<"r", "e", "t", "u", "r", "n">>
      [] type = token_EOF -> <<>>
      [] OTHER -> <<type>>

Tk(type) == Token(type, Lexeme(type))

IdentTok(name) == Token(token_IDENT, name)

IntTok(literal) == Token(token_INT, literal)

StrTok(s) == Token(token_STRING, s)

(***************************************************************************)
(* The lexer on text: NextToken called until the end of the input.         *)
(***************************************************************************)
Whitespace == {" ", "\t", "\n", "\r"}

Letters ==
    {"a", "b", "c", "d", "e", "f", "g", "h", "i", "j", "k", "l", "m", "n", "o", "p",
     "q", "r", "s", "t", "u", "v", "w", "x", "y", "z", "_",
     "A", "B", "C", "D", "E", "F", "G", "H", "I", "J", "K", "L", "M", "N", "O", "P",
     "Q", "R", "S", "T", "U", "V", "W", "X", "Y", "Z"}

SingleCharTokens ==
    {token_PLUS, token_MINUS, token_ASTERISK, token_SLASH, token_LT, token_GT,
     token_COMMA, token_SEMICOLON, token_COLON, token_LPAREN, token_RPAREN,
     token_LBRACE, token_RBRACE, token_LBRACKET, token_RBRACKET}

KeywordKinds ==
    {token_FUNCTION, token_LET, token_TRUE, token_FALSE, token_IF, token_ELSE,
     token_RETURN}

\* The keyword table: the kind of a word.
LookupIdent(word) ==
    IF \E k \in KeywordKinds : Lexeme(k) = word
    THEN CHOOSE k \in KeywordKinds : Lexeme(k) = word
    ELSE token_IDENT

\* The last position of the run of characters of class that starts at i.
RECURSIVE RunEnd(_, _, _)
RunEnd(s, i, class) ==
    IF i < Len(s) /\ s[i + 1] \in class THEN RunEnd(s, i + 1, class) ELSE i

\* The position of the first double quote at or after i, Len(s) + 1 without.
RECURSIVE QuotePos(_, _)
QuotePos(s, i) ==
    IF i > Len(s) \/ s[i] = "\"" THEN i ELSE QuotePos(s, i + 1)

RECURSIVE LexFrom(_, _)
LexFrom(s, i) ==
    IF i > Len(s) THEN <<>>
    ELSE LET ch == s[i]
         IN CASE ch \in Whitespace -> LexFrom(s, i + 1)
              [] ch \in Letters ->
                    LET j == RunEnd(s, i, Letters)
                        word == SubSeq(s, i, j)
                    IN <<Token(LookupIdent(word), word)>> \o LexFrom(s, j + 1)
              [] ch \in Digits ->
                    LET j == RunEnd(s, i, Digits)
                    IN <<Token(token_INT, SubSeq(s, i, j))>> \o LexFrom(s, j + 1)
              [] ch = "\"" ->
                    LET j == QuotePos(s, i + 1)
                    IN <<Token(token_STRING, SubSeq(s, i + 1, j - 1))>> \o LexFrom(s, j + 1)
              [] ch = "=" ->
                    IF i < Len(s) /\ s[i + 1] = "="
                    THEN <<Tk(token_EQ)>> \o LexFrom(s, i + 2)
                    ELSE <<Tk(token_ASSIGN)>> \o LexFrom(s, i + 1)
              [] ch = "!" ->
                    IF i < Len(s) /\ s[i + 1] = "="
                    THEN <<Tk(token_NOT_EQ)>> \o LexFrom(s, i + 2)
                    ELSE <<Tk(token_BANG)>> \o LexFrom(s, i + 1)
              [] ch \in SingleCharTokens -> <<Token(ch, <<ch>>)>> \o LexFrom(s, i + 1)
              [] OTHER -> <<Token(token_ILLEGAL, <<ch>>)>> \o LexFrom(s, i + 1)

Lex(s) == LexFrom(s, 1)

(***************************************************************************)
(* The re-printed form of a node.  A HashLiteral holds its pairs in a Go   *)
(* map, and ranging over a map visits them in an order Go does not fix:    *)
(* ord is the order of one re-print ("insertion" or "reverse", which are   *)
(* all orders of a map of at most two pairs).                              *)
(***************************************************************************)
MapOrders == {"insertion", "reverse"}

RECURSIVE Reverse(_)
Reverse(s) == IF s = <<>> THEN <<>> ELSE Append(Reverse(Tail(s)), Head(s))

RangeOver(pairs, ord) == IF ord = "reverse" THEN Reverse(pairs.entries) ELSE pairs.entries

RECURSIVE NodeString(_, _)
RECURSIVE ConcatStrings(_, _)
RECURSIVE JoinStrings(_, _)
RECURSIVE JoinPairs(_, _)

\* The texts of the statements one after the other.
ConcatStrings(stmts, ord) ==
    IF stmts = <<>> THEN <<>>
    ELSE NodeString(Head(stmts), ord) \o ConcatStrings(Tail(stmts), ord)

\* The texts of the expressions, separated by ", ".
JoinStrings(exprs, ord) ==
    IF exprs = <<>> THEN <<>>
    ELSE IF Len(exprs) = 1 THEN NodeString(exprs[1], ord)
         ELSE NodeString(exprs[1], ord) \o <<",", " ">> \o JoinStrings(Tail(exprs), ord)

\* key:value of the pairs, separated by ", ".
JoinPairs(es, ord) ==
    IF es = <<>> THEN <<>>
    ELSE LET one == NodeString(es[1].key, ord) \o <<":">> \o NodeString(es[1].value, ord)
         IN IF Len(es) = 1 THEN one
            ELSE one \o <<",", " ">> \o JoinPairs(Tail(es), ord)

NodeString(node, ord) ==
    CASE node.kind = "Program" -> ConcatStrings(node.Statements, ord)
      [] node.kind = "BlockStatement" -> ConcatStrings(node.Statements, ord)
      [] node.kind = "iface" -> NodeString(node.ptr, ord)
      [] node.kind = "LetStatement" ->
            <<"l", "e", "t", " ">> \o NodeString(node.Name, ord) \o <<" ", "=", " ">>
                \o NodeString(node.Value, ord) \o <<";">>
      [] node.kind = "ReturnStatement" ->
            <<"r", "e", "t", "u", "r", "n", " ">> \o NodeString(node.ReturnValue, ord)
                \o <<";">>
      [] node.kind = "ExpressionStatement" -> NodeString(node.Expression, ord)
      [] node.kind = "Identifier" -> node.Value
      [] node.kind = "IntegerLiteral" -> node.Token.Literal
      [] node.kind = "Boolean" -> node.Token.Literal
      [] node.kind = "StringLiteral" -> node.Value
      [] node.kind = "PrefixExpression" ->
            <<"(">> \o node.Operator \o NodeString(node.Right, ord) \o <<")">>
      [] node.kind = "InfixExpression" ->
            <<"(">> \o NodeString(node.Left, ord) \o <<" ">> \o node.Operator \o <<" ">>
                \o NodeString(node.Right, ord) \o <<")">>
      [] node.kind = "CallExpression" ->
            NodeString(node.Function, ord) \o <<"(">>
                \o JoinStrings(node.Arguments.elems, ord) \o <<")">>
      [] node.kind = "IndexExpression" ->
            <<"(">> \o NodeString(node.Left, ord) \o <<"[">>
                \o NodeString(node.Index, ord) \o <<"]", ")">>
      [] node.kind = "IfExpression" ->
            <<"i", "f", " ">> \o NodeString(node.Condition, ord) \o <<" ">>
                \o NodeString(node.Consequence, ord)
                \o (IF node.Alternative # NilPtr
                    THEN <<" ", "e", "l", "s", "e", " ">> \o NodeString(node.Alternative, ord)
                    ELSE <<>>)
      [] node.kind = "ArrayLiteral" ->
            <<"[">> \o JoinStrings(node.Elements.elems, ord) \o <<"]">>
      [] node.kind = "HashLiteral" ->
            <<"{">> \o JoinPairs(RangeOver(node.Pairs, ord), ord) \o <<"}">>

InitWith(inputs) ==
    \E toks \in inputs :
        /\ parser = New(LexerNew(toks))
        /\ program = NilPtr
        /\ pc = "New"
        /\ text = <<>>
        /\ first = [program |-> NilPtr, text |-> <<>>]
        /\ round = 1

\* program := &ast.Program{}; program.Statements = []ast.Statement{}
ParseProgramEnter ==
    /\ pc = "New"
    /\ program' = [kind |-> "Program", Statements |-> <<>>]
    /\ pc' = "loop"
    /\ UNCHANGED <<parser, text, first, round>>

\* The iteration without the nextToken at its end.
ParseProgramLoopWithoutAdvance ==
    /\ pc = "loop"
    /\ ~curTokenIs(parser, token_EOF)
    /\ \E r \in {parseStatement(parser)} :
          IF r.p.panicked
          THEN /\ pc' = "panic"
               /\ parser' = r.p
               /\ UNCHANGED program
          ELSE /\ program' = IF r.node # Nil
                             THEN [program EXCEPT !.Statements = Append(@, r.node)]
                             ELSE program
               /\ parser' = r.p
               /\ pc' = "loop"
    /\ UNCHANGED <<text, first, round>>

\* One iteration of the loop of ParseProgram.
ParseProgramLoop ==
    /\ pc = "loop"
    /\ ~curTokenIs(parser, token_EOF)
    /\ \E r \in {parseStatement(parser)} :
          IF r.p.panicked
          THEN /\ pc' = "panic"
               /\ parser' = r.p
               /\ UNCHANGED program
          ELSE /\ program' = IF r.node # Nil
                             THEN [program EXCEPT !.Statements = Append(@, r.node)]
                             ELSE program
               /\ parser' = nextToken(r.p)
               /\ pc' = "loop"
    /\ UNCHANGED <<text, first, round>>

ParseProgramReturn ==
    /\ pc = "loop"
    /\ curTokenIs(parser, token_EOF)
    /\ pc' = "done"
    /\ UNCHANGED <<parser, program, text, first, round>>

Next ==
    \/ ParseProgramEnter
    \/ ParseProgramLoop
    \/ ParseProgramReturn

\* The re-print of a program that parsed without errors.
Reprint ==
    /\ pc = "done"
    /\ parser.errors = <<>>
    /\ \E ord \in MapOrders : text' = NodeString(program, ord)
    /\ pc' = "printed"
    /\ UNCHANGED <<parser, program, first, round>>

\* A new lexer and a new parser on the re-print.
Reparse ==
    /\ pc = "printed"
    /\ round = 1
    /\ parser' = New(LexerNew(Lex(text)))
    /\ program' = NilPtr
    /\ first' = [program |-> program, text |-> text]
    /\ round' = 2
    /\ pc' = "New"
    /\ UNCHANGED text

NextRoundTrip ==
    \/ ParseProgramEnter
    \/ ParseProgramLoop
    \/ ParseProgramReturn
    \/ Reprint
    \/ Reparse

(***************************************************************************)
(* Inputs: operator expressions.                                           *)
(***************************************************************************)
\* The longest chain of binary operators over plain operands.
MaxOps == 3

\* The longest chain of binary operators over operands of every form.
MaxMixedOps == 2

BinaryOpKinds ==
    {token_EQ, token_NOT_EQ, token_LT, token_GT, token_PLUS, token_MINUS,
     token_ASTERISK, token_SLASH}

\* One operator of each of three levels, for the chains of mixed operands.
MixedOpKinds == {token_EQ, token_PLUS, token_ASTERISK}

\* The name of the i-th operand of a chain.
OperandName(i) ==
    <<CASE i = 1 -> "a" [] i = 2 -> "b" [] i = 3 -> "c" [] i = 4 -> "d" [] i = 5 -> "e"
        [] OTHER -> "f">>

OperandForms == {"x", "-x", "x[1]", "x(y)"}

\* Operand forms of the examples only.
ExampleForms == {"!x", "-x[1]", "!-x", "-x(y)"}

OperandTokens(form, name) ==
    CASE form = "x" -> <<IdentTok(name)>>
      [] form = "-x" -> <<Tk(token_MINUS), IdentTok(name)>>
      [] form = "!x" -> <<Tk(token_BANG), IdentTok(name)>>
      [] form = "x[1]" ->
            <<IdentTok(name), Tk(token_LBRACKET), IntTok(<<"1">>), Tk(token_RBRACKET)>>
      [] form = "x(y)" ->
            <<IdentTok(name), Tk(token_LPAREN), IdentTok(<<"y">>), Tk(token_RPAREN)>>
      [] form = "-x[1]" ->
            <<Tk(token_MINUS), IdentTok(name), Tk(token_LBRACKET), IntTok(<<"1">>),
              Tk(token_RBRACKET)>>
      [] form = "!-x" -> <<Tk(token_BANG), Tk(token_MINUS), IdentTok(name)>>
      [] form = "-x(y)" ->
            <<Tk(token_MINUS), IdentTok(name), Tk(token_LPAREN), IdentTok(<<"y">>),
              Tk(token_RPAREN)>>

\* operand 1, ops[1], operand 2, ..., ops[n], operand n + 1
RECURSIVE ChainFrom(_, _, _)
ChainFrom(forms, ops, i) ==
    OperandTokens(forms[i], OperandName(i))
        \o (IF i > Len(ops) THEN <<>> ELSE <<Tk(ops[i])>> \o ChainFrom(forms, ops, i + 1))

PlainChains ==
    UNION {{ChainFrom([i \in 1..(n + 1) |-> "x"], ops, 1) : ops \in [1..n -> BinaryOpKinds]}
           : n \in 0..MaxOps}

MixedChains ==
    UNION {{ChainFrom(forms, ops, 1) :
                forms \in [1..(n + 1) -> OperandForms], ops \in [1..n -> MixedOpKinds]}
           : n \in 0..MaxMixedOps}

\* 5 > 4 == 3 < 4
Example_5gt4eq3lt4 ==
    <<IntTok(<<"5">>), Tk(token_GT), IntTok(<<"4">>), Tk(token_EQ), IntTok(<<"3">>),
      Tk(token_LT), IntTok(<<"4">>)>>

\* a * b[2]
Example_a_times_b2 ==
    <<IdentTok(<<"a">>), Tk(token_ASTERISK), IdentTok(<<"b">>), Tk(token_LBRACKET),
      IntTok(<<"2">>), Tk(token_RBRACKET)>>

\* a + b * c
Example_a_plus_b_times_c ==
    <<IdentTok(<<"a">>), Tk(token_PLUS), IdentTok(<<"b">>), Tk(token_ASTERISK),
      IdentTok(<<"c">>)>>

\* a + b * c + d / e - f
Example_long ==
    <<IdentTok(<<"a">>), Tk(token_PLUS), IdentTok(<<"b">>), Tk(token_ASTERISK),
      IdentTok(<<"c">>), Tk(token_PLUS), IdentTok(<<"d">>), Tk(token_SLASH),
      IdentTok(<<"e">>), Tk(token_MINUS), IdentTok(<<"f">>)>>

\* !a == b, -a[1] * b, a + -b[1], ...
ExampleChains ==
    {ChainFrom(forms, <<op>>, 1) :
        forms \in {<<f, "x">> : f \in ExampleForms} \cup {<<"x", f>> : f \in ExampleForms},
        op \in MixedOpKinds}
    \cup {ChainFrom(<<f>>, <<>>, 1) : f \in ExampleForms}

OperatorInputs ==
    PlainChains \cup MixedChains \cup ExampleChains
        \cup {Example_5gt4eq3lt4, Example_a_times_b2, Example_a_plus_b_times_c, Example_long}

InitOperators == InitWith(OperatorInputs)

SpecOperators == InitOperators /\ [][Next]_vars

(***************************************************************************)
(* Inputs: arbitrary token streams.                                        *)
(***************************************************************************)
\* The longest stream of arbitrary tokens.
MaxStreamLen == 3

\* 9223372036854775808, one more than the largest int64.
OverflowLiteral ==
    <<"9", "2", "2", "3", "3", "7", "2", "0", "3", "6", "8", "5", "4", "7", "7", "5", "8",
      "0", "8">>

\* The tokens of the streams of every length up to MaxStreamLen.
StreamTokens ==
    {Tk(token_LET), Tk(token_RETURN), IdentTok(<<"x">>), IntTok(<<"5">>),
     Tk(token_ASSIGN), Tk(token_SEMICOLON), Tk(token_LPAREN), Tk(token_RPAREN),
     Tk(token_LBRACE), Tk(token_RBRACE), Tk(token_COLON), Tk(token_COMMA),
     Tk(token_PLUS), Tk(token_LBRACKET), Tk(token_RBRACKET),
     Token(token_ILLEGAL, <<"@">>)}

\* The tokens put in the place of one token of a program.
EditTokens ==
    StreamTokens \cup
    {Tk(token_MINUS), Tk(token_BANG),
     Tk(token_ASTERISK), Tk(token_LT), Tk(token_EQ), Tk(token_IF), Tk(token_ELSE),
     Tk(token_FUNCTION), Tk(token_TRUE), StrTok(<<"s">>), IntTok(OverflowLiteral)}

ShortStreams == UNION {[1..n -> StreamTokens] : n \in 0..MaxStreamLen}

\* Programs that parse without errors, one for each form.
SeedPrograms ==
    { <<Tk(token_LET), IdentTok(<<"x">>), Tk(token_ASSIGN), IntTok(<<"5">>),
        Tk(token_SEMICOLON)>>,
      <<Tk(token_RETURN), IdentTok(<<"x">>), Tk(token_PLUS), StrTok(<<"s">>),
        Tk(token_SEMICOLON)>>,
      <<Tk(token_IF), Tk(token_LPAREN), IdentTok(<<"x">>), Tk(token_RPAREN),
        Tk(token_LBRACE), IdentTok(<<"y">>), Tk(token_RBRACE), Tk(token_ELSE),
        Tk(token_LBRACE), IdentTok(<<"z">>), Tk(token_RBRACE)>>,
      <<Tk(token_FUNCTION), Tk(token_LPAREN), IdentTok(<<"a">>), Tk(token_COMMA),
        IdentTok(<<"b">>), Tk(token_RPAREN), Tk(token_LBRACE), Tk(token_LET),
        IdentTok(<<"c">>), Tk(token_ASSIGN), IdentTok(<<"a">>), Tk(token_RBRACE)>>,
      <<IdentTok(<<"f">>), Tk(token_LPAREN), IdentTok(<<"a">>), Tk(token_COMMA),
        Tk(token_MINUS), IdentTok(<<"b">>), Tk(token_RPAREN)>>,
      <<Tk(token_LBRACKET), IntTok(<<"1">>), Tk(token_COMMA), IntTok(<<"2">>),
        Tk(token_RBRACKET), Tk(token_LBRACKET), IntTok(<<"0">>), Tk(token_RBRACKET)>>,
      <<Tk(token_LBRACE), IdentTok(<<"a">>), Tk(token_COLON), IntTok(<<"1">>),
        Tk(token_COMMA), IdentTok(<<"b">>), Tk(token_COLON), Tk(token_TRUE),
        Tk(token_RBRACE)>>,
      <<Tk(token_LPAREN), IdentTok(<<"a">>), Tk(token_PLUS), IdentTok(<<"b">>),
        Tk(token_RPAREN), Tk(token_ASTERISK), Tk(token_BANG), IdentTok(<<"c">>)>> }

\* A program with one token replaced, with one token left out, or cut short.
OneEdit(seed) ==
    {[seed EXCEPT ![i] = t] : i \in 1..Len(seed), t \in EditTokens}
        \cup {SubSeq(seed, 1, i - 1) \o SubSeq(seed, i + 1, Len(seed)) : i \in 1..Len(seed)}
        \cup {SubSeq(seed, 1, i) : i \in 0..Len(seed)}

EditedPrograms == UNION {OneEdit(seed) : seed \in SeedPrograms}

\* let x 5;
Example_let_x_5 ==
    <<Tk(token_LET), IdentTok(<<"x">>), IntTok(<<"5">>), Tk(token_SEMICOLON)>>

\* let x 5; let = 10; let 838383;
Example_three_lets ==
    <<Tk(token_LET), IdentTok(<<"x">>), IntTok(<<"5">>), Tk(token_SEMICOLON),
      Tk(token_LET), Tk(token_ASSIGN), IntTok(<<"1", "0">>), Tk(token_SEMICOLON),
      Tk(token_LET), IntTok(<<"8", "3", "8", "3", "8", "3">>), Tk(token_SEMICOLON)>>

StreamInputs == ShortStreams \cup EditedPrograms \cup {Example_let_x_5, Example_three_lets}

InitStreams == InitWith(StreamInputs)

SpecStreams == InitStreams /\ [][Next]_vars

\* The longest stream of arbitrary tokens of the runs checked for termination.
MaxFairLen == 2

FairInputs ==
    UNION {[1..n -> StreamTokens] : n \in 0..MaxFairLen}
        \cup EditedPrograms \cup {Example_let_x_5, Example_three_lets}

InitFair == InitWith(FairInputs)

\* The program runs: a step of ParseProgram that can be taken is taken.
SpecStreamsFair == InitFair /\ [][Next]_vars /\ WF_vars(Next)

(***************************************************************************)
(* Inputs: programs of one integer literal.                                *)
(***************************************************************************)
\* The longest literal of arbitrary digits.
MaxDigits == 2

RECURSIVE Repeat(_, _)
Repeat(c, n) == IF n = 0 THEN <<>> ELSE <<c>> \o Repeat(c, n - 1)

ShortLiterals == UNION {[1..n -> Digits] : n \in 1..MaxDigits}

\* Literals around 1<<63 and 1<<64, read in base 10 and in base 8, and
\* literals with many leading zeros.
BoundaryLiterals ==
    {<<"9", "2", "2", "3", "3", "7", "2", "0", "3", "6", "8", "5", "4", "7", "7", "5",
       "8", "0", d>> : d \in Digits}
    \cup {<<"1", "8", "4", "4", "6", "7", "4", "4", "0", "7", "3", "7", "0", "9", "5",
            "5", "1", "6", "1", d>> : d \in Digits}
    \cup {<<"0">> \o Repeat("7", 21),
          <<"0", "1">> \o Repeat("0", 21),
          <<"0", "1">> \o Repeat("7", 21),
          <<"0", "2">> \o Repeat("0", 21),
          <<"0">> \o Repeat("7", 20) \o <<"8">>,
          Repeat("0", 22) \o <<"5">>,
          Repeat("0", 21) \o <<"1", "0">>,
          Repeat("9", 25),
          <<"0", "1", "0">>}

IntegerInputs == {<<IntTok(literal)>> : literal \in ShortLiterals \cup BoundaryLiterals}

InitIntegers == InitWith(IntegerInputs)

SpecIntegers == InitIntegers /\ [][Next]_vars

(***************************************************************************)
(* Inputs: programs that are printed and parsed again.  No program has a   *)
(* function literal: the re-printing contract has no form for it.          *)
(***************************************************************************)
\* The most statements of a program of several statements.
MaxStatements == 2

X == IdentTok(<<"x">>)

Y == IdentTok(<<"y">>)

Five == IntTok(<<"5">>)

\* x, 5, -x, x(y)
SmallExpressions ==
    { <<X>>, <<Five>>, <<Tk(token_MINUS), X>>,
      <<X, Tk(token_LPAREN), Y, Tk(token_RPAREN)>> }

\* Expressions of one form each.
RoundTripAtoms ==
    SmallExpressions \cup
    { <<Tk(token_TRUE)>>,
      <<IntTok(<<"0", "1", "0">>)>>,
      <<StrTok(<<"s">>)>>,
      <<StrTok(<<"a", " ", "b">>)>>,
      <<Tk(token_BANG), Tk(token_FALSE)>>,
      <<Tk(token_LPAREN), X, Tk(token_RPAREN)>>,
      <<Tk(token_LPAREN), X, Tk(token_PLUS), Y, Tk(token_RPAREN)>>,
      <<Tk(token_LPAREN), X, Tk(token_PLUS), Y, Tk(token_RPAREN), Tk(token_LPAREN), Five,
        Tk(token_RPAREN)>>,
      <<X, Tk(token_LPAREN), Tk(token_RPAREN)>>,
      <<X, Tk(token_LPAREN), Y, Tk(token_COMMA), Five, Tk(token_RPAREN)>>,
      <<X, Tk(token_LBRACKET), Five, Tk(token_RBRACKET)>>,
      <<Tk(token_LBRACKET), Tk(token_RBRACKET)>>,
      <<Tk(token_LBRACKET), X, Tk(token_COMMA), Five, Tk(token_RBRACKET)>>,
      <<Tk(token_LBRACE), Tk(token_RBRACE)>>,
      <<Tk(token_LBRACE), X, Tk(token_COLON), Five, Tk(token_RBRACE)>>,
      <<Tk(token_LBRACE), X, Tk(token_COLON), Five, Tk(token_COMMA), Y, Tk(token_COLON),
        Tk(token_TRUE), Tk(token_RBRACE)>>,
      <<Tk(token_IF), Tk(token_LPAREN), X, Tk(token_RPAREN), Tk(token_LBRACE), Y,
        Tk(token_RBRACE)>>,
      <<Tk(token_IF), Tk(token_LPAREN), X, Tk(token_RPAREN), Tk(token_LBRACE), Y,
        Tk(token_RBRACE), Tk(token_ELSE), Tk(token_LBRACE), X, Tk(token_RBRACE)>> }

RoundTripOpKinds == {token_EQ, token_PLUS, token_ASTERISK}

RoundTripExpressions ==
    RoundTripAtoms
        \cup {a \o <<Tk(op)>> \o b : a \in RoundTripAtoms, b \in RoundTripAtoms,
                                     op \in RoundTripOpKinds}

\* e   e;   let y = e;   return e;
StatementsOf(e) ==
    { e,
      e \o <<Tk(token_SEMICOLON)>>,
      <<Tk(token_LET), Y, Tk(token_ASSIGN)>> \o e \o <<Tk(token_SEMICOLON)>>,
      <<Tk(token_RETURN)>> \o e \o <<Tk(token_SEMICOLON)>> }

SmallStatements == UNION {StatementsOf(e) : e \in SmallExpressions}

RECURSIVE Flatten(_)
Flatten(seqs) == IF seqs = <<>> THEN <<>> ELSE Head(seqs) \o Flatten(Tail(seqs))

RoundTripInputs ==
    UNION {StatementsOf(e) : e \in RoundTripExpressions}
        \cup UNION {{Flatten(ss) : ss \in [1..n -> SmallStatements]} : n \in 0..MaxStatements}

InitRoundTrip == InitWith(RoundTripInputs)

SpecRoundTrip == InitRoundTrip /\ [][NextRoundTrip]_vars

(***************************************************************************)
(* Inputs: statements with and without their ";".  A statement that parsed *)
(* without errors is parsed again with one or two ";" after it.            *)
(***************************************************************************)
\* 3 + 4; -5 * 5
Example_3_plus_4_minus_5_times_5 ==
    <<IntTok(<<"3">>), Tk(token_PLUS), IntTok(<<"4">>), Tk(token_SEMICOLON),
      Tk(token_MINUS), IntTok(<<"5">>), Tk(token_ASTERISK), IntTok(<<"5">>)>>

\* Expressions of every form, each block closed.
StatementExpressions ==
    SmallExpressions \cup
    { <<Tk(token_TRUE)>>,
      <<StrTok(<<"s">>)>>,
      <<X, Tk(token_PLUS), Y>>,
      <<X, Tk(token_PLUS), Y, Tk(token_ASTERISK), Five>>,
      <<Tk(token_LPAREN), X, Tk(token_PLUS), Y, Tk(token_RPAREN)>>,
      <<X, Tk(token_LBRACKET), Five, Tk(token_RBRACKET)>>,
      <<Tk(token_LBRACKET), X, Tk(token_COMMA), Five, Tk(token_RBRACKET)>>,
      <<Tk(token_LBRACE), X, Tk(token_COLON), Five, Tk(token_RBRACE)>>,
      <<Tk(token_FUNCTION), Tk(token_LPAREN), X, Tk(token_RPAREN), Tk(token_LBRACE),
        Tk(token_RETURN), Y, Tk(token_SEMICOLON), Tk(token_RBRACE)>>,
      <<Tk(token_FUNCTION), Tk(token_LPAREN), Tk(token_RPAREN), Tk(token_LBRACE),
        X, Tk(token_PLUS), Five, Tk(token_SEMICOLON), Tk(token_MINUS), Y,
        Tk(token_RBRACE)>>,
      <<Tk(token_IF), Tk(token_LPAREN), X, Tk(token_RPAREN), Tk(token_LBRACE), Y,
        Tk(token_RBRACE), Tk(token_ELSE), Tk(token_LBRACE), X, Tk(token_SEMICOLON),
        Tk(token_RBRACE)>> }

\* e   let y = e   return e
SingleStatements ==
    UNION {{e, <<Tk(token_LET), Y, Tk(token_ASSIGN)>> \o e, <<Tk(token_RETURN)>> \o e}
           : e \in StatementExpressions}

\* The expressions of the programs of two statements.
PairExpressions ==
    SmallExpressions \cup
    { <<IntTok(<<"3">>), Tk(token_PLUS), IntTok(<<"4">>)>>,
      <<Tk(token_MINUS), IntTok(<<"5">>), Tk(token_ASTERISK), IntTok(<<"5">>)>> }

OptionalSemicolon == {<<>>, <<Tk(token_SEMICOLON)>>}

\* e1 e2   e1; e2   e1 e2;   e1; e2;
StatementPairs ==
    {a \o s1 \o b \o s2 : a \in PairExpressions, b \in PairExpressions,
                          s1 \in OptionalSemicolon, s2 \in OptionalSemicolon}

SemicolonInputs == SingleStatements \cup StatementPairs

InitSemicolons == InitWith(SemicolonInputs)

\* The numbers of ";" put after a statement.
SemicolonCounts == {1, 2}

\* A new lexer and a new parser on the statement followed by ";" or ";;".
ParseWithSemicolons ==
    /\ pc = "done"
    /\ round = 1
    /\ parser.errors = <<>>
    /\ Len(program.Statements) = 1
    /\ parser.lexer.input[Len(parser.lexer.input)].Type # token_SEMICOLON
    /\ \E k \in SemicolonCounts :
          parser' = New(LexerNew(parser.lexer.input
                                    \o [i \in 1..k |-> Tk(token_SEMICOLON)]))
    /\ program' = NilPtr
    /\ first' = [program |-> program, text |-> <<>>]
    /\ round' = 2
    /\ pc' = "New"
    /\ UNCHANGED text

NextSemicolons ==
    \/ ParseProgramEnter
    \/ ParseProgramLoop
    \/ ParseProgramReturn
    \/ ParseWithSemicolons

SpecSemicolons == InitSemicolons /\ [][NextSemicolons]_vars

(***************************************************************************)
(* Inputs: groups, alone and as operands, closed and not closed.           *)
(***************************************************************************)
\* (5 + 5) * 2
Example_group_times_2 ==
    <<Tk(token_LPAREN), Five, Tk(token_PLUS), Five, Tk(token_RPAREN), Tk(token_ASTERISK),
      IntTok(<<"2">>)>>

\* 1 + (2 + 3) + 4
Example_group_in_sum ==
    <<IntTok(<<"1">>), Tk(token_PLUS), Tk(token_LPAREN), IntTok(<<"2">>), Tk(token_PLUS),
      IntTok(<<"3">>), Tk(token_RPAREN), Tk(token_PLUS), IntTok(<<"4">>)>>

Grouped(e) == <<Tk(token_LPAREN)>> \o e \o <<Tk(token_RPAREN)>>

\* The expressions put in a group that is an operand.
GroupOperandExpressions == SmallExpressions \cup {<<X, Tk(token_PLUS), Y>>}

GroupNeighbours == {<<Y>>, <<Tk(token_MINUS), Five>>}

\* The tokens in the place of the ) of a group; <<>> is the end of the input.
NotRParen ==
    {<<>>, <<Tk(token_SEMICOLON)>>, <<Tk(token_RBRACKET)>>, <<Tk(token_RBRACE)>>,
     <<Tk(token_COMMA)>>, <<Y>>, <<Tk(token_LBRACE)>>, <<Tk(token_ASSIGN), Five>>}

GroupInputs ==
    {Grouped(e) : e \in StatementExpressions}
        \cup {Grouped(Grouped(e)) : e \in GroupOperandExpressions}
        \cup {Grouped(e) \o <<Tk(op)>> \o b :
                e \in GroupOperandExpressions, op \in RoundTripOpKinds, b \in GroupNeighbours}
        \cup {a \o <<Tk(op)>> \o Grouped(e) :
                e \in GroupOperandExpressions, op \in RoundTripOpKinds, a \in GroupNeighbours}
        \cup {<<Tk(token_LPAREN)>> \o e \o t : e \in GroupOperandExpressions, t \in NotRParen}
        \cup {Example_group_times_2, Example_group_in_sum}

InitGroups == InitWith(GroupInputs)

SpecGroups == InitGroups /\ [][Next]_vars

(***************************************************************************)
(* Inputs: parameter lists, argument lists and array literals.             *)
(***************************************************************************)
\* The most parameters, arguments or elements of a list.
MaxListLen == 3

\* x, -x, x + y * 5, x(y), [x, 5]
ListItems ==
    { <<X>>, <<Tk(token_MINUS), X>>,
      <<X, Tk(token_PLUS), Y, Tk(token_ASTERISK), Five>>,
      <<X, Tk(token_LPAREN), Y, Tk(token_RPAREN)>>,
      <<Tk(token_LBRACKET), X, Tk(token_COMMA), Five, Tk(token_RBRACKET)>> }

ParameterNames == {<<"x">>, <<"y">>, <<"z">>}

\* The items one after the other with a , between two of them.
RECURSIVE CommaList(_)
CommaList(items) ==
    IF items = <<>> THEN <<>>
    ELSE IF Len(items) = 1 THEN items[1]
         ELSE items[1] \o <<Tk(token_COMMA)>> \o CommaList(Tail(items))

\* fn(p1, ..., pn) {}
FunctionOf(names) ==
    <<Tk(token_FUNCTION), Tk(token_LPAREN)>>
        \o CommaList([i \in 1..Len(names) |-> <<IdentTok(names[i])>>])
        \o <<Tk(token_RPAREN), Tk(token_LBRACE), Tk(token_RBRACE)>>

\* f(a1, ..., an)
CallOf(items) ==
    <<IdentTok(<<"f">>), Tk(token_LPAREN)>> \o CommaList(items) \o <<Tk(token_RPAREN)>>

\* [e1, ..., en]
ArrayOf(items) == <<Tk(token_LBRACKET)>> \o CommaList(items) \o <<Tk(token_RBRACKET)>>

ItemLists == UNION {[1..n -> ListItems] : n \in 0..MaxListLen}

NameLists == UNION {[1..n -> ParameterNames] : n \in 0..MaxListLen}

ListInputs ==
    {FunctionOf(names) : names \in NameLists}
        \cup {CallOf(items) : items \in ItemLists}
        \cup {ArrayOf(items) : items \in ItemLists}

InitLists == InitWith(ListInputs)

SpecLists == InitLists /\ [][Next]_vars

(***************************************************************************)
(* Inputs: if-expressions with and without else, and what follows them.    *)
(***************************************************************************)
IfConditions == {<<X>>, <<X, Tk(token_LT), Y>>}

\* The statements of a block: none, y, return y; and let y = 5; x
BlockBodies ==
    { <<>>, <<Y>>, <<Tk(token_RETURN), Y, Tk(token_SEMICOLON)>>,
      <<Tk(token_LET), Y, Tk(token_ASSIGN), Five, Tk(token_SEMICOLON), X>> }

BlockOf(body) == <<Tk(token_LBRACE)>> \o body \o <<Tk(token_RBRACE)>>

\* if (c) { a }
IfOf(c, a) == <<Tk(token_IF)>> \o Grouped(c) \o BlockOf(a)

\* if (c) { a } else { b }
IfElseOf(c, a, b) == IfOf(c, a) \o <<Tk(token_ELSE)>> \o BlockOf(b)

\* What follows an if-expression without else: nothing, a ;, another
\* statement, an operator with its operand, a stray } or {.
AfterIf ==
    { <<>>, <<Tk(token_SEMICOLON)>>, <<Y>>, <<Tk(token_SEMICOLON), Y>>,
      <<Tk(token_PLUS), Five>>, <<Tk(token_RBRACE)>>, <<Tk(token_LBRACE), Y, Tk(token_RBRACE)>> }

\* What follows an else that no { follows: nothing, an expression, another
\* if-expression, a ;.
AfterElse ==
    { <<>>, <<X>>, <<Tk(token_SEMICOLON)>>, <<Tk(token_LPAREN)>>,
      <<Tk(token_IF), Tk(token_LPAREN), X, Tk(token_RPAREN), Tk(token_LBRACE), Y,
        Tk(token_RBRACE)>> }

IfInputs ==
    {IfOf(c, a) \o t : c \in IfConditions, a \in BlockBodies, t \in AfterIf}
        \cup {IfElseOf(c, a, b) \o t :
                c \in IfConditions, a \in BlockBodies, b \in BlockBodies,
                t \in {<<>>, <<Tk(token_SEMICOLON), Y>>}}
        \cup {IfOf(c, a) \o <<Tk(token_ELSE)>> \o t :
                c \in IfConditions, a \in BlockBodies, t \in AfterElse}
        \cup {IfOf(<<X>>, i) : i \in {IfOf(<<Y>>, <<X>>), IfElseOf(<<Y>>, <<X>>, <<Y>>)}}
        \cup {IfElseOf(<<X>>, <<Y>>, IfElseOf(<<Y>>, <<X>>, <<Y>>))}
        \cup {<<Tk(token_IF)>> \o Grouped(<<X>>) \o <<Tk(token_LBRACE), Y>>,
              <<Tk(token_IF)>> \o Grouped(<<X>>) \o <<Tk(token_LBRACE), Y, Tk(token_ELSE)>>
                    \o BlockOf(<<X>>)}

InitIfs == InitWith(IfInputs)

SpecIfs == InitIfs /\ [][Next]_vars

(***************************************************************************)
(* Inputs: hash literals.                                                  *)
(***************************************************************************)
\* The most entries of a hash literal.
MaxHashPairs == 2

One == IntTok(<<"1">>)

\* "one": 0 + 1    1: 1    1: 2    x: -x    x + y: [x, 5]    true: x(y)
HashEntries ==
    { <<<<StrTok(<<"o", "n", "e">>)>>, <<IntTok(<<"0">>), Tk(token_PLUS), One>>>>,
      <<<<One>>, <<One>>>>,
      <<<<One>>, <<IntTok(<<"2">>)>>>>,
      <<<<X>>, <<Tk(token_MINUS), X>>>>,
      <<<<X, Tk(token_PLUS), Y>>,
        <<Tk(token_LBRACKET), X, Tk(token_COMMA), Five, Tk(token_RBRACKET)>>>>,
      <<<<Tk(token_TRUE)>>, <<X, Tk(token_LPAREN), Y, Tk(token_RPAREN)>>>> }

\* { k1 : v1, ..., kn : vn }
HashOf(entries) ==
    BlockOf(CommaList([i \in 1..Len(entries) |->
                          entries[i][1] \o <<Tk(token_COLON)>> \o entries[i][2]]))

EntryLists == UNION {[1..n -> HashEntries] : n \in 0..MaxHashPairs}

HashInputs == {HashOf(entries) : entries \in EntryLists}

InitHashes == InitWith(HashInputs)

SpecHashes == InitHashes /\ [][Next]_vars

(***************************************************************************)
(* Inputs: hash literals, array literals and argument lists with a , in    *)
(* front of the closing token, and the same without it.                    *)
(***************************************************************************)
\* The tokens with a , put in front of the last one.
TrailingComma(toks) ==
    SubSeq(toks, 1, Len(toks) - 1) \o <<Tk(token_COMMA), toks[Len(toks)]>>

NonEmptyEntryLists == {entries \in EntryLists : entries # <<>>}

NonEmptyItemLists == {items \in ItemLists : items # <<>>}

TrailingCommaInputs ==
    {TrailingComma(HashOf(entries)) : entries \in NonEmptyEntryLists}
        \cup {TrailingComma(ArrayOf(items)) : items \in NonEmptyItemLists}
        \cup {TrailingComma(CallOf(items)) : items \in NonEmptyItemLists}
        \cup HashInputs

InitTrailingCommas == InitWith(TrailingCommaInputs)

SpecTrailingCommas == InitTrailingCommas /\ [][Next]_vars

(***************************************************************************)
(* The earlier parser (src/unnamed/part_002): let and return statements    *)
(* skip their expression, token by token, up to the next ;.  Its           *)
(* ParseProgram, parseExpressionStatement, parseExpression, expectPeek and *)
(* nextToken read as the ones above; New registers fewer handlers.  One    *)
(* step is the part of an iteration of the loop of ParseProgram up to the  *)
(* skipping loop, one iteration of the skipping loop, or the rest of the   *)
(* iteration after it.  pc is "skipLet" or "skipReturn" while the loop of  *)
(* parseLetStatement or parseReturnStatement runs, and first.program holds *)
(* the statement that it will return.                                      *)
(***************************************************************************)
\* New of the earlier parser, with the handlers that it registers.
EarlierNew(lexer) ==
    LET parser0 == [lexer |-> lexer, errors |-> <<>>,
                    curToken |-> ZeroToken, peekToken |-> ZeroToken,
                    prefixParseFn |-> EmptyMap, infixParseFn |-> EmptyMap,
                    trace |-> <<>>, panicked |-> FALSE]
        parser2 == nextToken(nextToken(parser0))
        prefixes == << <<token_IDENT, "parseIdentifier">>,
                       <<token_INT, "parseIntegerLiteral">>,
                       <<token_BANG, "parsePrefixExpression">>,
                       <<token_MINUS, "parsePrefixExpression">> >>
        infixes == << <<token_PLUS, "parseInfixExpression">>,
                      <<token_MINUS, "parseInfixExpression">>,
                      <<token_SLASH, "parseInfixExpression">>,
                      <<token_ASTERISK, "parseInfixExpression">>,
                      <<token_EQ, "parseInfixExpression">>,
                      <<token_NOT_EQ, "parseInfixExpression">>,
                      <<token_LT, "parseInfixExpression">>,
                      <<token_GT, "parseInfixExpression">> >>
    IN RegisterAllInfix(RegisterAllPrefix(parser2, prefixes, 1), infixes, 1)

\* The reads of the lexer after the end of the input that a run is followed for.
MaxEOFReads == 4

\* if stmt != nil { program.Statements = append(program.Statements, stmt) }
AppendStatement(prog, dyn, stmt) ==
    [prog EXCEPT !.Statements = Append(@, Iface(dyn, stmt))]

\* parseLetStatement up to its loop, and the rest of the iteration of
\* ParseProgram where it returns nil.
EarlierLetStatement ==
    /\ pc = "loop"
    /\ curTokenIs(parser, token_LET)
    /\ \E e1 \in {expectPeek(parser, token_IDENT)} :
          IF ~e1.ok
          THEN /\ program' = AppendStatement(program, "*ast.LetStatement", NilPtr)
               /\ parser' = nextToken(e1.p)
               /\ pc' = "loop"
               /\ UNCHANGED first
          ELSE \E e2 \in {expectPeek(e1.p, token_ASSIGN)} :
                  IF ~e2.ok
                  THEN /\ program' = AppendStatement(program, "*ast.LetStatement", NilPtr)
                       /\ parser' = nextToken(e2.p)
                       /\ pc' = "loop"
                       /\ UNCHANGED first
                  ELSE /\ first' = [first EXCEPT !.program =
                                        [kind |-> "LetStatement", Token |-> ZeroToken,
                                         Name |-> [kind |-> "Identifier",
                                                   Token |-> ZeroToken,
                                                   Value |-> e1.p.curToken.Literal],
                                         Value |-> Nil]]
                       /\ parser' = e2.p
                       /\ pc' = "skipLet"
                       /\ UNCHANGED program
    /\ UNCHANGED <<text, round>>

\* parseReturnStatement up to its loop.
EarlierReturnStatement ==
    /\ pc = "loop"
    /\ curTokenIs(parser, token_RETURN)
    /\ parser' = nextToken(parser)
    /\ first' = [first EXCEPT !.program =
                    [kind |-> "ReturnStatement", Token |-> ZeroToken,
                     ReturnValue |-> Nil]]
    /\ pc' = "skipReturn"
    /\ UNCHANGED <<program, text, round>>

\* One iteration of  for !parser.curTokenIs(token.SEMICOLON) { parser.nextToken() }
EarlierSkip ==
    /\ pc \in {"skipLet", "skipReturn"}
    /\ ~curTokenIs(parser, token_SEMICOLON)
    /\ parser.lexer.position < Len(parser.lexer.input) + MaxEOFReads
    /\ parser' = nextToken(parser)
    /\ UNCHANGED <<program, pc, text, first, round>>

\* The loop ends on the ; : the statement is returned and appended, and
\* ParseProgram advances.
EarlierSkipEnd ==
    /\ pc \in {"skipLet", "skipReturn"}
    /\ curTokenIs(parser, token_SEMICOLON)
    /\ program' = AppendStatement(program,
                       IF pc = "skipLet" THEN "*ast.LetStatement"
                       ELSE "*ast.ReturnStatement",
                       first.program)
    /\ parser' = nextToken(parser)
    /\ first' = [first EXCEPT !.program = NilPtr]
    /\ pc' = "loop"
    /\ UNCHANGED <<text, round>>

\* An iteration of the loop of ParseProgram on an expression statement.
EarlierExpressionStatement ==
    /\ pc = "loop"
    /\ parser.curToken.Type \notin {token_LET, token_RETURN, token_EOF}
    /\ \E r \in {parseExpressionStatement(parser)} :
          /\ program' = AppendStatement(program, "*ast.ExpressionStatement", r.node)
          /\ parser' = nextToken(r.p)
    /\ UNCHANGED <<pc, text, first, round>>

NextEarlier ==
    \/ ParseProgramEnter
    \/ EarlierLetStatement
    \/ EarlierReturnStatement
    \/ EarlierSkip
    \/ EarlierSkipEnd
    \/ EarlierExpressionStatement
    \/ ParseProgramReturn

\* let x = 5    return 5    x + 5    -x    let 5    let x 5
EarlierStatements ==
    { <<Tk(token_LET), X, Tk(token_ASSIGN), Five>>,
      <<Tk(token_RETURN), Five>>,
      <<X, Tk(token_PLUS), Five>>,
      <<Tk(token_MINUS), X>>,
      <<Tk(token_LET), Five>>,
      <<Tk(token_LET), X, Five>> }

\* One or two statements, each with or without its ; .
EarlierInputs ==
    {s \o t : s \in EarlierStatements, t \in OptionalSemicolon}
        \cup {s1 \o t1 \o s2 \o t2 : s1 \in EarlierStatements, s2 \in EarlierStatements,
                                     t1 \in OptionalSemicolon, t2 \in OptionalSemicolon}

InitEarlier ==
    \E toks \in EarlierInputs :
        /\ parser = EarlierNew(LexerNew(toks))
        /\ program = NilPtr
        /\ pc = "New"
        /\ text = <<>>
        /\ first = [program |-> NilPtr, text |-> <<>>]
        /\ round = 1

\* The program runs: a step that can be taken is taken.
SpecEarlier == InitEarlier /\ [][NextEarlier]_vars /\ WF_vars(NextEarlier)

(***************************************************************************)
(* Properties.                                                             *)
(***************************************************************************)
\* The tokens the first parse read.
Source == IF round = 1 THEN parser.lexer.input ELSE Lex(first.text)

Parsed == pc = "done" /\ round = 1

ParsedWithoutErrors == Parsed /\ parser.errors = <<>>

\* The expression of the i-th statement, an expression statement.
ExpressionOf(i) == program.Statements[i].ptr.Expression

\* Nodes as the parser builds them.
IdentNode(name) == [kind |-> "Identifier", Token |-> IdentTok(name), Value |-> name]

InfixNode(op, left, right) ==
    [kind |-> "InfixExpression", Token |-> Tk(op), Operator |-> Lexeme(op),
     Left |-> left, Right |-> right]

PrefixNode(op, right) ==
    [kind |-> "PrefixExpression", Token |-> Tk(op), Operator |-> Lexeme(op),
     Right |-> right]

IndexNode(left, index) ==
    [kind |-> "IndexExpression", Token |-> Tk(token_LBRACKET), Left |-> left,
     Index |-> index]

\* The ladder of the specification: the level of an operator token.
Ladder(type) ==
    CASE type \in {token_EQ, token_NOT_EQ} -> 2
      [] type \in {token_LT, token_GT} -> 3
      [] type \in {token_PLUS, token_MINUS} -> 4
      [] type \in {token_ASTERISK, token_SLASH} -> 5
      [] type = token_LPAREN -> 7
      [] type = token_LBRACKET -> 8

\* A ( that starts a group: one that does not follow the end of an operand.
HasGroup(toks) ==
    \E i \in 1..Len(toks) :
        /\ toks[i].Type = token_LPAREN
        /\ \/ i = 1
           \/ toks[i - 1].Type \notin
                 {token_IDENT, token_INT, token_STRING, token_TRUE, token_FALSE,
                  token_RPAREN, token_RBRACKET, token_RBRACE}

RECURSIVE Yield(_)
RECURSIVE YieldList(_)
\* The tokens of the expressions, separated by commas.
YieldList(exprs) ==
    IF exprs = <<>> THEN <<>>
    ELSE IF Len(exprs) = 1 THEN Yield(exprs[1])
         ELSE Yield(exprs[1]) \o <<Tk(token_COMMA)>> \o YieldList(Tail(exprs))

\* The tokens an expression without groups was parsed from, in order.
Yield(node) ==
    CASE node.kind \in {"Identifier", "IntegerLiteral", "Boolean", "StringLiteral"} ->
            <<node.Token>>
      [] node.kind = "PrefixExpression" -> <<node.Token>> \o Yield(node.Right)
      [] node.kind = "InfixExpression" ->
            Yield(node.Left) \o <<node.Token>> \o Yield(node.Right)
      [] node.kind = "IndexExpression" ->
            Yield(node.Left) \o <<node.Token>> \o Yield(node.Index)
                \o <<Tk(token_RBRACKET)>>
      [] node.kind = "CallExpression" ->
            Yield(node.Function) \o <<node.Token>> \o YieldList(node.Arguments.elems)
                \o <<Tk(token_RPAREN)>>
      [] node.kind = "ArrayLiteral" ->
            <<node.Token>> \o YieldList(node.Elements.elems) \o <<Tk(token_RBRACKET)>>

\* No operator of the tree holds an operand that a neighbour higher on the
\* ladder competed for.
RECURSIVE HigherTakesOperand(_)
HigherTakesOperand(node) ==
    CASE node.kind = "InfixExpression" ->
            /\ node.Right.kind = "InfixExpression" =>
                    ~(Ladder(node.Right.Token.Type) < Ladder(node.Token.Type))
            /\ node.Left.kind = "InfixExpression" =>
                    ~(Ladder(node.Left.Token.Type) < Ladder(node.Token.Type))
            /\ HigherTakesOperand(node.Left)
            /\ HigherTakesOperand(node.Right)
      [] node.kind = "PrefixExpression" ->
            /\ node.Right.kind # "InfixExpression"
            /\ HigherTakesOperand(node.Right)
      [] node.kind \in {"IndexExpression", "CallExpression"} ->
            /\ LET left == IF node.kind = "IndexExpression" THEN node.Left
                           ELSE node.Function
               IN /\ left.kind \notin {"InfixExpression", "PrefixExpression"}
                  /\ HigherTakesOperand(left)
            /\ node.kind = "IndexExpression" => HigherTakesOperand(node.Index)
            /\ node.kind = "CallExpression" =>
                    \A i \in 1..Len(node.Arguments.elems) :
                        HigherTakesOperand(node.Arguments.elems[i])
      [] node.kind = "ArrayLiteral" ->
            \A i \in 1..Len(node.Elements.elems) : HigherTakesOperand(node.Elements.elems[i])
      [] OTHER -> TRUE

\* C1: in an expression parsed without errors, of two operators that compete
\* for an operand the one higher on the ladder LOWEST < EQUALS < LESSGREATER <
\* SUM < PRODUCT < PREFIX < CALL < INDEX takes it: the tree is a tree of the
\* tokens read in which no operator holds an operand against a higher
\* neighbour; a + b * c is Infix(+, a, Infix(*, b, c)), 5 > 4 == 3 < 4 is
\* Infix(==, Infix(>, 5, 4), Infix(<, 3, 4)), a * b[2] is
\* Infix(*, a, Index(b, 2)).
C1_HigherPrecedenceTakesOperand ==
    (ParsedWithoutErrors /\ ~HasGroup(Source)) =>
        /\ Len(program.Statements) = 1
        /\ Yield(ExpressionOf(1)) = Source
        /\ HigherTakesOperand(ExpressionOf(1))
        /\ Source = Example_a_plus_b_times_c =>
                ExpressionOf(1) =
                    InfixNode(token_PLUS, IdentNode(<<"a">>),
                              InfixNode(token_ASTERISK, IdentNode(<<"b">>),
                                        IdentNode(<<"c">>)))
        /\ Source = Example_5gt4eq3lt4 =>
                /\ ExpressionOf(1).Token.Type = token_EQ
                /\ ExpressionOf(1).Left.Token.Type = token_GT
                /\ ExpressionOf(1).Right.Token.Type = token_LT
                /\ Yield(ExpressionOf(1).Left) = SubSeq(Source, 1, 3)
                /\ Yield(ExpressionOf(1).Right) = SubSeq(Source, 5, 7)
        /\ Source = Example_a_times_b2 =>
                /\ ExpressionOf(1).Token.Type = token_ASTERISK
                /\ ExpressionOf(1).Left = IdentNode(<<"a">>)
                /\ ExpressionOf(1).Right.kind = "IndexExpression"
                /\ ExpressionOf(1).Right.Left = IdentNode(<<"b">>)
                /\ ExpressionOf(1).Right.Index.Token.Literal = <<"2">>

\* A parse in which a lower operator on the left and a higher one on the
\* right competed for b, and a higher on the left and a lower on the right
\* for d: a + b * c + d / e - f.
C1_Witness ==
    /\ ParsedWithoutErrors
    /\ Source = Example_long
    /\ ExpressionOf(1).Token.Type = token_MINUS
    /\ ExpressionOf(1).Left.Left.Right.Token.Type = token_ASTERISK

\* A chain of identifiers joined by binary operators of one level.
IsSameLevelChain(toks) ==
    /\ Len(toks) % 2 = 1
    /\ Len(toks) >= 5
    /\ \A i \in 1..Len(toks) :
          IF i % 2 = 1 THEN toks[i].Type = token_IDENT
          ELSE /\ toks[i].Type \in BinaryOpKinds
               /\ Ladder(toks[i].Type) = Ladder(toks[2].Type)

\* ((..(e1 op1 e2) op2 e3)..) opn e(n+1) of the first k tokens of the chain.
RECURSIVE LeftNested(_, _)
LeftNested(toks, k) ==
    IF k = 1 THEN IdentNode(toks[1].Literal)
    ELSE InfixNode(toks[k - 1].Type, LeftNested(toks, k - 2), IdentNode(toks[k].Literal))

\* C2: the binary operators are left-associative: a chain e1 op1 e2 ... opn
\* e(n+1) of operators of one precedence parses to the left-nested tree
\* ((..(e1 op1 e2) op2 e3)..) opn e(n+1).
C2_LeftAssociative ==
    (Parsed /\ IsSameLevelChain(Source)) =>
        /\ parser.errors = <<>>
        /\ Len(program.Statements) = 1
        /\ ExpressionOf(1) = LeftNested(Source, Len(Source))

\* A chain of three operators of one level has been parsed.
C2_Witness ==
    /\ Parsed
    /\ IsSameLevelChain(Source)
    /\ Len(Source) = 7
    /\ Source[2].Type # Source[4].Type
    /\ ExpressionOf(1).Left.Left.kind = "InfixExpression"

(***************************************************************************)
(* Properties of the error handling.                                       *)
(***************************************************************************)
\* The events of the trace of one kind.
EventsOf(ev) == {i \in 1..Len(parser.trace) : parser.trace[i].ev = ev}

IsPrefixOf(s, t) == Len(s) <= Len(t) /\ SubSeq(t, 1, Len(s)) = s

RECURSIVE HasNilPart(_)
\* A nil key, operand or list element somewhere in the node.
HasNilPart(node) ==
    CASE node.kind = "HashLiteral" ->
            \E i \in 1..Len(node.Pairs.entries) :
                \/ node.Pairs.entries[i].key = Nil
                \/ node.Pairs.entries[i].value = Nil
      [] node.kind = "InfixExpression" -> node.Left = Nil \/ node.Right = Nil
      [] node.kind = "PrefixExpression" -> node.Right = Nil
      [] node.kind = "ArrayLiteral" ->
            \E i \in 1..Len(node.Elements.elems) : node.Elements.elems[i] = Nil
      [] OTHER -> FALSE

\* C4: the parser never throws: on every token stream, with ILLEGAL tokens,
\* missing delimiters or failed sub-expressions, no step of New and
\* ParseProgram panics, ParseProgram returns a program that is not nil, and
\* the error list only grows by appending.
C4_NeverThrows ==
    /\ [](/\ pc # "panic"
          /\ ~parser.panicked
          /\ pc \in {"loop", "done"} => program # NilPtr /\ program.kind = "Program")
    /\ [][IsPrefixOf(parser.errors, parser'.errors)]_vars

\* ParseProgram has returned from a stream on which a sub-expression failed
\* and left a nil key, operand or list element in the tree.
C4_Witness ==
    /\ Parsed
    /\ parser.errors # <<>>
    /\ \E i \in 1..Len(program.Statements) :
          /\ program.Statements[i].ptr # NilPtr
          /\ program.Statements[i].ptr.kind = "ExpressionStatement"
          /\ program.Statements[i].ptr.Expression # Nil
          /\ HasNilPart(program.Statements[i].ptr.Expression)

RECURSIVE NoNullStatementIn(_)
RECURSIVE NoNullStatement(_)
\* No statement of the list is null, nor any statement of a block in it.
NoNullStatement(stmts) ==
    \A i \in 1..Len(stmts) :
        /\ stmts[i] # Nil
        /\ stmts[i].ptr # NilPtr
        /\ NoNullStatementIn(stmts[i].ptr)

NoNullStatementIn(node) ==
    CASE node.kind = "nil" -> TRUE
      [] node.kind = "LetStatement" -> NoNullStatementIn(node.Value)
      [] node.kind = "ReturnStatement" -> NoNullStatementIn(node.ReturnValue)
      [] node.kind = "ExpressionStatement" -> NoNullStatementIn(node.Expression)
      [] node.kind = "BlockStatement" -> NoNullStatement(node.Statements)
      [] node.kind = "PrefixExpression" -> NoNullStatementIn(node.Right)
      [] node.kind = "InfixExpression" ->
            NoNullStatementIn(node.Left) /\ NoNullStatementIn(node.Right)
      [] node.kind = "IndexExpression" ->
            NoNullStatementIn(node.Left) /\ NoNullStatementIn(node.Index)
      [] node.kind = "IfExpression" ->
            /\ NoNullStatementIn(node.Condition)
            /\ NoNullStatementIn(node.Consequence)
            /\ node.Alternative # NilPtr => NoNullStatementIn(node.Alternative)
      [] node.kind = "FunctionLiteral" -> NoNullStatementIn(node.Body)
      [] node.kind = "CallExpression" ->
            /\ NoNullStatementIn(node.Function)
            /\ \A i \in 1..Len(node.Arguments.elems) :
                  NoNullStatementIn(node.Arguments.elems[i])
      [] node.kind = "ArrayLiteral" ->
            \A i \in 1..Len(node.Elements.elems) : NoNullStatementIn(node.Elements.elems[i])
      [] node.kind = "HashLiteral" ->
            \A i \in 1..Len(node.Pairs.entries) :
                /\ NoNullStatementIn(node.Pairs.entries[i].key)
                /\ NoNullStatementIn(node.Pairs.entries[i].value)
      [] OTHER -> TRUE

\* C5: a statement whose sub-parse returned null is skipped: no element of
\* Program.Statements, nor of the statements of a block, is a null statement,
\* and let x 5; contributes no entry (its only statement is the expression
\* statement 5).
C5_NullStatementSkipped ==
    pc \in {"loop", "done"} =>
        /\ NoNullStatement(program.Statements)
        /\ (pc = "done" /\ Source = Example_let_x_5) =>
                /\ Len(program.Statements) = 1
                /\ program.Statements[1].dyn = "*ast.ExpressionStatement"

\* The message of a mismatched expectation, as the specification words it.
ExpectedNextTokenMsg(want, got) ==
    <<"expected next token to be ", want, ", got ", got, " instead">>

\* C6: a mismatched expectation appends exactly one message "expected next
\* token to be <want>, got <got> instead", <got> the kind of the peek token
\* at the mismatch; a matched one appends nothing; let x 5; gives "expected
\* next token to be =, got INT instead".
C6_PeekErrorMessage ==
    /\ \A i \in EventsOf("expectPeek") :
          LET e == parser.trace[i]
          IN IF e.peek0.Type # e.want
             THEN /\ e.nerr1 = e.nerr0 + 1
                  /\ parser.errors[e.nerr1] = ExpectedNextTokenMsg(e.want, e.peek0.Type)
             ELSE e.nerr1 = e.nerr0
    /\ (Parsed /\ Source = Example_let_x_5) =>
          \E k \in 1..Len(parser.errors) :
              parser.errors[k] =
                  <<"expected next token to be ", "=", ", got ", "INT", " instead">>

\* let x 5; has been parsed: one expectation matched, one did not.
C6_Witness ==
    /\ Parsed
    /\ Source = Example_let_x_5
    /\ \E i, j \in EventsOf("expectPeek") :
          /\ parser.trace[i].peek0.Type = parser.trace[i].want
          /\ parser.trace[j].peek0.Type # parser.trace[j].want

FailedExpectations == {i \in EventsOf("expectPeek") : ~parser.trace[i].ok}

MissingPrefixLookups == {i \in EventsOf("parseExpression") : ~parser.trace[i].ok}

RejectedIntegerLiterals == {i \in EventsOf("parseIntegerLiteral") : ~parser.trace[i].ok}

Last(s) == s[Len(s)]

\* A failed expectation consumes no token, and after a malformed let
\* statement ParseProgram goes on with the token that did not match; at the
\* end every token has been read.
FailedExpectationConsumesNothing ==
    /\ \A i \in FailedExpectations :
          LET e == parser.trace[i]
          IN e.cur1 = e.cur0 /\ e.peek1 = e.peek0 /\ e.pos1 = e.pos0
    /\ (/\ pc = "loop"
        /\ program.Statements # <<>>
        /\ Last(program.Statements).ptr = NilPtr) =>
            LET e == Last(parser.trace)
            IN /\ e.ev = "expectPeek"
               /\ ~e.ok
               /\ parser.curToken = e.peek0
               /\ parser.lexer.position = e.pos0 + 1
    /\ pc = "done" => parser.lexer.position >= Len(parser.lexer.input) + 2

ThreeLetsErrors ==
    (Parsed /\ Source = Example_three_lets) =>
        parser.errors =
            << <<"expected next token to be ", "=", ", got ", "INT", " instead">>,
               <<"expected next token to be ", "IDENT", ", got ", "=", " instead">>,
               <<"no prefix parse function for ", "=", " found">>,
               <<"expected next token to be ", "IDENT", ", got ", "INT", " instead">> >>

\* C7 as stated: a failed expectation consumes no token, parsing resumes with
\* the token that did not match, the number of errors is the number of failed
\* expectations plus the number of missing-prefix lookups, and
\* let x 5; let = 10; let 838383; yields exactly 4 errors.
C7_ErrorCountAsStated ==
    /\ FailedExpectationConsumesNothing
    /\ Len(parser.errors) = Cardinality(FailedExpectations) + Cardinality(MissingPrefixLookups)
    /\ ThreeLetsErrors

\* C7, amended: the number of errors is the number of failed expectations
\* plus the number of missing-prefix lookups plus the number of integer
\* literals that strconv.ParseInt rejects; the rest as stated.
C7_ErrorCount ==
    /\ FailedExpectationConsumesNothing
    /\ Len(parser.errors) =
          Cardinality(FailedExpectations) + Cardinality(MissingPrefixLookups)
              + Cardinality(RejectedIntegerLiterals)
    /\ ThreeLetsErrors

\* let x 5; let = 10; let 838383; has been parsed.
C7_Witness ==
    /\ Parsed
    /\ Source = Example_three_lets
    /\ Cardinality(FailedExpectations) = 3
    /\ Cardinality(MissingPrefixLookups) = 1

\* The kinds for which the specification lists a prefix handler.
KindsWithPrefixHandler ==
    {token_IDENT, token_INT, token_STRING, token_TRUE, token_FALSE, token_BANG,
     token_MINUS, token_LPAREN, token_IF, token_FUNCTION, token_LBRACKET, token_LBRACE}

\* C8: parseExpression on a current token without prefix handler appends
\* exactly one error "no prefix parse function for <kind> found", returns
\* null and leaves curToken and peekToken unchanged; on a token with a prefix
\* handler it appends no such error.
C8_NoPrefixParseFn ==
    \A i \in EventsOf("parseExpression") :
        LET e == parser.trace[i]
        IN IF e.cur0.Type \in KindsWithPrefixHandler
           THEN e.nerr1 = e.nerr0
           ELSE /\ e.nerr1 = e.nerr0 + 1
                /\ parser.errors[e.nerr1] =
                        <<"no prefix parse function for ", e.cur0.Type, " found">>
                /\ e.ret = Nil
                /\ e.cur1 = e.cur0
                /\ e.peek1 = e.peek0
                /\ e.pos1 = e.pos0

\* parseExpression has been called at the end of the input, on an ILLEGAL
\* token, on a closing delimiter, and on a token with a handler.
C8_Witness ==
    /\ Parsed
    /\ \E i, j, k, l \in EventsOf("parseExpression") :
          /\ parser.trace[i].cur0.Type = token_EOF
          /\ parser.trace[j].cur0.Type = token_ILLEGAL
          /\ parser.trace[k].cur0.Type = token_RBRACE
          /\ parser.trace[l].cur0.Type \in KindsWithPrefixHandler

(***************************************************************************)
(* Properties of integer literals.                                         *)
(***************************************************************************)
\* The program is one expression statement of one INT token.
ParsedOneInteger ==
    /\ Parsed
    /\ Len(Source) = 1
    /\ Source[1].Type = token_INT

RECURSIVE StripZeros(_)
StripZeros(n) == IF Len(n) > 1 /\ Head(n) = 0 THEN StripZeros(Tail(n)) ELSE n

\* The value of a digit string read in base 10, as digits without leading zeros.
DecimalValue(literal) == StripZeros([i \in 1..Len(literal) |-> DigitVal(literal[i])])

\* 1<<63 - 1
Int64Max == <<9, 2, 2, 3, 3, 7, 2, 0, 3, 6, 8, 5, 4, 7, 7, 5, 8, 0, 7>>

\* The first place where the digits differ decides.
FitsInt64(literal) ==
    LET v == DecimalValue(literal)
    IN \/ Len(v) < Len(Int64Max)
       \/ /\ Len(v) = Len(Int64Max)
          /\ \/ v = Int64Max
             \/ \E i \in 1..Len(v) :
                    /\ v[i] < Int64Max[i]
                    /\ \A j \in 1..(i - 1) : v[j] = Int64Max[j]

\* C9: an INT token whose digits are within the int64 range gives an
\* IntegerLiteral whose value is the decimal value of the digits, and no
\* error; also with leading zeros (010 is 10, 08 is 8).
C9_StrictBase10 ==
    (ParsedOneInteger /\ FitsInt64(Source[1].Literal)) =>
        /\ parser.errors = <<>>
        /\ Len(program.Statements) = 1
        /\ ExpressionOf(1).kind = "IntegerLiteral"
        /\ ExpressionOf(1).Value = DecimalValue(Source[1].Literal)

Rejected(literal) ==
    IF Len(literal) > 1 /\ Head(literal) = "0"
    THEN \/ \E i \in 1..Len(literal) : literal[i] \in {"8", "9"}
         \/ Len(DecimalValue(Tail(literal))) > 21
    ELSE ~FitsInt64(literal)

RECURSIVE HasForm(_, _)
\* The node or a node below it is of one of the kinds; "Hash2" is the kind
\* of a hash literal of more than one pair.
HasForm(node, kinds) ==
    \/ node.kind \in kinds
    \/ CASE node.kind = "iface" -> HasForm(node.ptr, kinds)
         [] node.kind \in {"Program", "BlockStatement"} ->
                \E i \in 1..Len(node.Statements) : HasForm(node.Statements[i], kinds)
         [] node.kind = "LetStatement" -> HasForm(node.Value, kinds)
         [] node.kind = "ReturnStatement" -> HasForm(node.ReturnValue, kinds)
         [] node.kind = "ExpressionStatement" -> HasForm(node.Expression, kinds)
         [] node.kind = "PrefixExpression" -> HasForm(node.Right, kinds)
         [] node.kind = "InfixExpression" ->
                HasForm(node.Left, kinds) \/ HasForm(node.Right, kinds)
         [] node.kind = "IndexExpression" ->
                HasForm(node.Left, kinds) \/ HasForm(node.Index, kinds)
         [] node.kind = "CallExpression" ->
                \/ HasForm(node.Function, kinds)
                \/ \E i \in 1..Len(node.Arguments.elems) :
                        HasForm(node.Arguments.elems[i], kinds)
         [] node.kind = "ArrayLiteral" ->
                \E i \in 1..Len(node.Elements.elems) : HasForm(node.Elements.elems[i], kinds)
         [] node.kind = "HashLiteral" ->
                \/ "Hash2" \in kinds /\ Len(node.Pairs.entries) > 1
                \/ \E i \in 1..Len(node.Pairs.entries) :
                        \/ HasForm(node.Pairs.entries[i].key, kinds)
                        \/ HasForm(node.Pairs.entries[i].value, kinds)
         [] node.kind = "IfExpression" ->
                \/ HasForm(node.Condition, kinds)
                \/ HasForm(node.Consequence, kinds)
                \/ HasForm(node.Alternative, kinds)
         [] OTHER -> FALSE

\* Only the last statement of the program is an expression statement.
ExpressionStatementOnlyLast(prog) ==
    \A i \in 1..(Len(prog.Statements) - 1) :
        prog.Statements[i].ptr.kind # "ExpressionStatement"

\* The second parse has no errors and the second re-print is the first.
RoundTrips ==
    /\ pc # "panic"
    /\ pc = "done" => parser.errors = <<>>
    /\ pc = "printed" => text = first.text

ParsedOneExpression ==
    /\ ParsedWithoutErrors
    /\ Len(program.Statements) = 1
    /\ program.Statements[1].dyn = "*ast.ExpressionStatement"

\* C11: the pairs of a hash literal parsed without error are an ordered
\* sequence: every enumeration of them visits them in the order of the
\* source.
C11_PairsInSourceOrder ==
    (ParsedOneExpression /\ ExpressionOf(1).kind = "HashLiteral") =>
        \A ord \in MapOrders :
            RangeOver(ExpressionOf(1).Pairs, ord) = ExpressionOf(1).Pairs.entries

(***************************************************************************)
(* Properties of the ";".                                                  *)
(***************************************************************************)
IntNode(literal, value) ==
    [kind |-> "IntegerLiteral", Token |-> IntTok(literal), Value |-> value]

\* The tokens from the i-th on are the tokens of the expression statements
\* from the k-th on, each followed by the one ";" the tokens have there.
RECURSIVE StatementsSpell(_, _, _)
StatementsSpell(toks, i, k) ==
    IF k > Len(program.Statements) THEN i = Len(toks) + 1
    ELSE LET y == Yield(ExpressionOf(k))
             j == i + Len(y)
         IN /\ j - 1 <= Len(toks)
            /\ SubSeq(toks, i, j - 1) = y
            /\ StatementsSpell(toks,
                               IF j <= Len(toks) /\ toks[j].Type = token_SEMICOLON
                               THEN j + 1 ELSE j,
                               k + 1)

\* A program of expression statements over identifiers, literals, prefix,
\* infix, call, index and array expressions, written without groups.
PlainExpressionStatements ==
    /\ ParsedWithoutErrors
    /\ ~HasGroup(Source)
    /\ ~HasForm(program, {"LetStatement", "ReturnStatement", "IfExpression",
                          "FunctionLiteral", "HashLiteral"})

RECURSIVE TrailingSemicolons(_)
TrailingSemicolons(toks) ==
    IF toks # <<>> /\ toks[Len(toks)].Type = token_SEMICOLON
    THEN 1 + TrailingSemicolons(SubSeq(toks, 1, Len(toks) - 1))
    ELSE 0

CallNode(function, arguments) ==
    [kind |-> "CallExpression", Token |-> Tk(token_LPAREN), Function |-> function,
     Arguments |-> Slice(arguments)]

RECURSIVE PrefixTakesOperand(_, _, _)
RECURSIVE PrefixTakesOperandList(_, _, _)
\* The expressions of a list that starts at the i-th token.
PrefixTakesOperandList(exprs, toks, i) ==
    \/ exprs = <<>>
    \/ /\ PrefixTakesOperand(exprs[1], toks, i)
       /\ PrefixTakesOperandList(Tail(exprs), toks, i + Len(Yield(exprs[1])) + 1)

\* In the expression that starts at the i-th token, the operand of every
\* prefix operator is no binary operation, and the token after the operand
\* opens no call and no index.
PrefixTakesOperand(node, toks, i) ==
    CASE node.kind = "PrefixExpression" ->
            LET after == i + 1 + Len(Yield(node.Right))
            IN /\ node.Right.kind # "InfixExpression"
               /\ after <= Len(toks) => toks[after].Type \notin {token_LPAREN, token_LBRACKET}
               /\ PrefixTakesOperand(node.Right, toks, i + 1)
      [] node.kind = "InfixExpression" ->
            /\ PrefixTakesOperand(node.Left, toks, i)
            /\ PrefixTakesOperand(node.Right, toks, i + Len(Yield(node.Left)) + 1)
      [] node.kind = "IndexExpression" ->
            /\ PrefixTakesOperand(node.Left, toks, i)
            /\ PrefixTakesOperand(node.Index, toks, i + Len(Yield(node.Left)) + 1)
      [] node.kind = "CallExpression" ->
            /\ PrefixTakesOperand(node.Function, toks, i)
            /\ PrefixTakesOperandList(node.Arguments.elems, toks,
                                      i + Len(Yield(node.Function)) + 1)
      [] node.kind = "ArrayLiteral" ->
            PrefixTakesOperandList(node.Elements.elems, toks, i + 1)
      [] OTHER -> TRUE

\* operand 1 op operand 2, the operands of the forms, named a and b.
TwoOperands(form1, op, form2) == ChainFrom(<<form1, form2>>, <<op>>, 1)

\* C14: the operand of ! and - is the expression parsed at PREFIX: no binary
\* operation, but with the calls and indexes that follow it, and a prefix
\* operation itself if another prefix operator follows; -a * b is
\* Infix(*, Prefix(-, a), b), !a == b is Infix(==, Prefix(!, a), b), !-a is
\* Prefix(!, Prefix(-, a)), -a[1] is Prefix(-, Index(a, 1)) and -a(y) is
\* Prefix(-, Call(a, y)).
C14_PrefixOperand ==
    (ParsedWithoutErrors /\ ~HasGroup(Source)) =>
        /\ Len(program.Statements) = 1
        /\ Yield(ExpressionOf(1)) = Source
        /\ PrefixTakesOperand(ExpressionOf(1), Source, 1)
        /\ Source = TwoOperands("-x", token_ASTERISK, "x") =>
                ExpressionOf(1) =
                    InfixNode(token_ASTERISK, PrefixNode(token_MINUS, IdentNode(<<"a">>)),
                              IdentNode(<<"b">>))
        /\ Source = TwoOperands("!x", token_EQ, "x") =>
                ExpressionOf(1) =
                    InfixNode(token_EQ, PrefixNode(token_BANG, IdentNode(<<"a">>)),
                              IdentNode(<<"b">>))
        /\ Source = OperandTokens("!-x", <<"a">>) =>
                ExpressionOf(1) =
                    PrefixNode(token_BANG, PrefixNode(token_MINUS, IdentNode(<<"a">>)))
        /\ Source = OperandTokens("-x[1]", <<"a">>) =>
                ExpressionOf(1) =
                    PrefixNode(token_MINUS,
                               IndexNode(IdentNode(<<"a">>), IntNode(<<"1">>, <<1>>)))
        /\ Source = OperandTokens("-x(y)", <<"a">>) =>
                ExpressionOf(1) =
                    PrefixNode(token_MINUS,
                               CallNode(IdentNode(<<"a">>), <<IdentNode(<<"y">>)>>))

\* -a[1] * b has been parsed: the operand of - is the index expression and
\* the prefix expression is the left operand of *.
C14_Witness ==
    /\ ParsedWithoutErrors
    /\ Source = TwoOperands("-x[1]", token_ASTERISK, "x")
    /\ ExpressionOf(1).kind = "InfixExpression"
    /\ ExpressionOf(1).Left.kind = "PrefixExpression"
    /\ ExpressionOf(1).Left.Right.kind = "IndexExpression"

(***************************************************************************)
(* Properties of the groups.                                               *)
(***************************************************************************)
\* The tree of the expression e parsed alone.
TreeOf(e) == parseExpressionStatement(New(LexerNew(e))).node.Expression

\* C15: ( e ) has e parsed at LOWEST and yields the tree of e, without a
\* node of its own, alone and as the operand of any operator: (5 + 5) * 2 is
\* Infix(*, Infix(+, 5, 5), 2), 1 + (2 + 3) + 4 is
\* Infix(+, Infix(+, 1, Infix(+, 2, 3)), 4); when the token after e is not ),
\* the group records the one error of the expectation of ) and yields null.
C15_GroupedExpression ==
    /\ \A i \in EventsOf("parseGroupedExpression") :
          LET e == parser.trace[i]
          IN IF e.peek0.Type = token_RPAREN
             THEN /\ e.nerr1 = e.nerr0
                  /\ e.cur1 = e.peek0
                  /\ e.pos1 = e.pos0 + 1
             ELSE /\ e.nerr1 = e.nerr0 + 1
                  /\ parser.errors[e.nerr1] =
                        <<"expected next token to be ", ")", ", got ", e.peek0.Type,
                          " instead">>
                  /\ e.ret = Nil
                  /\ e.cur1 = e.cur0
                  /\ e.pos1 = e.pos0
    /\ Parsed =>
          /\ \A e \in StatementExpressions :
                Source = Grouped(e) =>
                    /\ parser.errors = <<>>
                    /\ Len(program.Statements) = 1
                    /\ ExpressionOf(1) = TreeOf(e)
          /\ \A e \in GroupOperandExpressions :
                /\ Source = Grouped(Grouped(e)) =>
                        parser.errors = <<>> /\ ExpressionOf(1) = TreeOf(e)
                /\ \A op \in RoundTripOpKinds, n \in GroupNeighbours :
                      /\ Source = Grouped(e) \o <<Tk(op)>> \o n =>
                            /\ parser.errors = <<>>
                            /\ ExpressionOf(1) = InfixNode(op, TreeOf(e), TreeOf(n))
                      /\ Source = n \o <<Tk(op)>> \o Grouped(e) =>
                            /\ parser.errors = <<>>
                            /\ ExpressionOf(1) = InfixNode(op, TreeOf(n), TreeOf(e))
                /\ \A t \in NotRParen :
                      Source = <<Tk(token_LPAREN)>> \o e \o t =>
                            /\ parser.errors # <<>>
                            /\ parser.errors[1] =
                                  <<"expected next token to be ", ")", ", got ",
                                    IF t = <<>> THEN token_EOF ELSE t[1].Type, " instead">>
                            /\ program.Statements[1].ptr.Expression = Nil
          /\ Source = Example_group_times_2 =>
                ExpressionOf(1) =
                    InfixNode(token_ASTERISK,
                              InfixNode(token_PLUS, IntNode(<<"5">>, <<5>>),
                                        IntNode(<<"5">>, <<5>>)),
                              IntNode(<<"2">>, <<2>>))
          /\ Source = Example_group_in_sum =>
                ExpressionOf(1) =
                    InfixNode(token_PLUS,
                              InfixNode(token_PLUS, IntNode(<<"1">>, <<1>>),
                                        InfixNode(token_PLUS, IntNode(<<"2">>, <<2>>),
                                                  IntNode(<<"3">>, <<3>>))),
                              IntNode(<<"4">>, <<4>>))

\* 1 + (2 + 3) + 4 has been parsed, the group as the right operand of the
\* first +.
C15_Witness ==
    /\ ParsedWithoutErrors
    /\ Source = Example_group_in_sum
    /\ Cardinality(EventsOf("parseGroupedExpression")) = 1
    /\ ExpressionOf(1).Left.Right.kind = "InfixExpression"

(***************************************************************************)
(* Properties of the lists.                                                *)
(***************************************************************************)
\* C16: the lists between ( ) and [ ] keep count and order: fn(p1, ..., pn) {},
\* f(a1, ..., an) and [e1, ..., en] parse without errors to a node with
\* exactly the n parameters, arguments or elements, in the order of the
\* source, each argument and element the tree of its whole expression; for
\* n = 0 the list is the empty sequence, not nil.
C16_ListsKeepCountAndOrder ==
    Parsed =>
        /\ parser.errors = <<>>
        /\ Len(program.Statements) = 1
        /\ \A names \in NameLists :
              Source = FunctionOf(names) =>
                  /\ ExpressionOf(1).kind = "FunctionLiteral"
                  /\ ExpressionOf(1).Parameters =
                        Slice([i \in 1..Len(names) |-> IdentNode(names[i])])
                  /\ ExpressionOf(1).Body.Statements = <<>>
        /\ \A items \in ItemLists :
              /\ Source = CallOf(items) =>
                    /\ ExpressionOf(1).kind = "CallExpression"
                    /\ ExpressionOf(1).Function = IdentNode(<<"f">>)
                    /\ ExpressionOf(1).Arguments =
                          Slice([i \in 1..Len(items) |-> TreeOf(items[i])])
              /\ Source = ArrayOf(items) =>
                    /\ ExpressionOf(1).kind = "ArrayLiteral"
                    /\ ExpressionOf(1).Elements =
                          Slice([i \in 1..Len(items) |-> TreeOf(items[i])])

\* f(x + y * 5, -x, x(y)) has been parsed: three arguments, the first an
\* infix expression, the last a call.
C16_Witness ==
    /\ ParsedWithoutErrors
    /\ ExpressionOf(1).kind = "CallExpression"
    /\ Len(ExpressionOf(1).Arguments.elems) = MaxListLen
    /\ ExpressionOf(1).Arguments.elems[1].kind = "InfixExpression"
    /\ ExpressionOf(1).Arguments.elems[2].kind = "PrefixExpression"
    /\ ExpressionOf(1).Arguments.elems[MaxListLen].kind = "CallExpression"

(***************************************************************************)
(* Properties of the if-expressions.                                       *)
(***************************************************************************)
\* The k-th token of the input, EOF after the last.
TokenAt(k) ==
    IF k <= Len(parser.lexer.input) THEN parser.lexer.input[k] ELSE EOFToken

\* The statements of the block with the body, parsed alone inside fn() { }.
BlockTreeOf(body) ==
    TreeOf(<<Tk(token_FUNCTION), Tk(token_LPAREN), Tk(token_RPAREN)>> \o BlockOf(body))
        .Body.Statements

\* C17: the Alternative of an if-expression is there exactly when the token
\* after the } of the consequence is else and a { follows it; without else
\* the Alternative is nil and parseIfExpression returns on the } of the
\* consequence, so that the tokens after it are parsed by its callers; an
\* else that no { follows records the one error of the expectation of { and
\* the if-expression yields nil.
C17_ElseAlternative ==
    /\ \A i \in EventsOf("parseIfExpression") :
          LET e == parser.trace[i]
          IN IF e.peek0.Type # token_ELSE
             THEN /\ e.ret.kind = "IfExpression"
                  /\ e.ret.Alternative = NilPtr
                  /\ e.cur1 = e.cur0
                  /\ e.peek1 = e.peek0
                  /\ e.pos1 = e.pos0
                  /\ e.nerr1 = e.nerr0
             ELSE IF TokenAt(e.pos0 + 1).Type = token_LBRACE
                  THEN /\ e.ret.kind = "IfExpression"
                       /\ e.ret.Alternative # NilPtr
                       /\ e.ret.Alternative.kind = "BlockStatement"
                       /\ e.nerr1 = e.nerr0
                  ELSE /\ e.ret = Nil
                       /\ e.nerr1 = e.nerr0 + 1
                       /\ parser.errors[e.nerr1] =
                             <<"expected next token to be ", "{", ", got ",
                               TokenAt(e.pos0 + 1).Type, " instead">>
    /\ Parsed =>
          \A c \in IfConditions, a \in BlockBodies :
              /\ \A t \in AfterIf :
                    Source = IfOf(c, a) \o t =>
                        /\ ExpressionOf(1).kind \in {"IfExpression", "InfixExpression"}
                        /\ LET if == IF ExpressionOf(1).kind = "IfExpression"
                                    THEN ExpressionOf(1) ELSE ExpressionOf(1).Left
                           IN /\ if.Condition = TreeOf(c)
                              /\ if.Consequence.Statements = BlockTreeOf(a)
                              /\ if.Alternative = NilPtr
                        /\ t = <<Tk(token_PLUS), Five>> =>
                                ExpressionOf(1).Right = TreeOf(<<Five>>)
                        /\ t \in {<<Y>>, <<Tk(token_SEMICOLON), Y>>} =>
                                /\ parser.errors = <<>>
                                /\ Len(program.Statements) = 2
                                /\ ExpressionOf(2) = TreeOf(<<Y>>)
              /\ \A b \in BlockBodies :
                    Source = IfElseOf(c, a, b) =>
                        /\ parser.errors = <<>>
                        /\ Len(program.Statements) = 1
                        /\ ExpressionOf(1).kind = "IfExpression"
                        /\ ExpressionOf(1).Condition = TreeOf(c)
                        /\ ExpressionOf(1).Consequence.Statements = BlockTreeOf(a)
                        /\ ExpressionOf(1).Alternative.Statements = BlockTreeOf(b)
              /\ \A t \in AfterElse :
                    Source = IfOf(c, a) \o <<Tk(token_ELSE)>> \o t =>
                        /\ parser.errors # <<>>
                        /\ parser.errors[1] =
                              <<"expected next token to be ", "{", ", got ",
                                IF t = <<>> THEN token_EOF ELSE t[1].Type, " instead">>
                        /\ t # <<Tk(token_LPAREN)>> => ExpressionOf(1) = Nil

\* if (x) { y } else { if (y) { x } else { y } } has been parsed: two
\* if-expressions with an Alternative each.
C17_Witness ==
    /\ ParsedWithoutErrors
    /\ Source = IfElseOf(<<X>>, <<Y>>, IfElseOf(<<Y>>, <<X>>, <<Y>>))
    /\ Cardinality(EventsOf("parseIfExpression")) = 2
    /\ ExpressionOf(1).Alternative # NilPtr
    /\ ExpressionOf(1).Alternative.Statements[1].ptr.Expression.Alternative # NilPtr

\* C18: a hash literal of n entries k : v parses without errors to a
\* HashLiteral of exactly n pairs, the key and the value of each the trees of
\* their whole expressions ({"one": 0 + 1} has the value Infix(+, 0, 1)),
\* also when two keys are spelled the same ({1: 1, 1: 2} has two pairs); {}
\* has no pair and no error.
C18_HashPairs ==
    Parsed =>
        /\ parser.errors = <<>>
        /\ Len(program.Statements) = 1
        /\ ExpressionOf(1).kind = "HashLiteral"
        /\ ~ExpressionOf(1).Pairs.isNil
        /\ \A entries \in EntryLists :
              Source = HashOf(entries) =>
                  LET pairs == ExpressionOf(1).Pairs.entries
                  IN /\ Len(pairs) = Len(entries)
                     /\ {pairs[i] : i \in 1..Len(pairs)} =
                           {[key |-> TreeOf(entries[i][1]), value |-> TreeOf(entries[i][2])]
                                : i \in 1..Len(entries)}

\* {1: 1, 1: 2} has been parsed: two pairs whose keys are spelled the same.
C18_Witness ==
    /\ ParsedWithoutErrors
    /\ Source = HashOf(<< <<<<One>>, <<One>>>>, <<<<One>>, <<IntTok(<<"2">>)>>>> >>)
    /\ Len(ExpressionOf(1).Pairs.entries) = 2
    /\ ExpressionOf(1).Pairs.entries[1].key = ExpressionOf(1).Pairs.entries[2].key

(***************************************************************************)
(* Termination.                                                            *)
(***************************************************************************)
\* { a : 1 ,
UnterminatedHash ==
    <<Tk(token_LBRACE), IdentTok(<<"a">>), Tk(token_COLON), IntTok(<<"1">>),
      Tk(token_COMMA)>>

\* C19: ParseProgram returns on every token stream, unterminated blocks,
\* hash literals, lists and groups included: every iteration of its loop
\* moves the token cursor forward, and every call of parseExpression has an
\* advance of its own before it, so that there are fewer calls than tokens
\* read.
C19_Terminates ==
    /\ <>(pc = "done")
    /\ [][(pc = "loop" /\ pc' = "loop") =>
            parser'.lexer.position > parser.lexer.position]_vars
    /\ [](Cardinality(EventsOf("parseExpression")) < parser.lexer.position)

\* ParseProgram has returned from { a : 1 , with its errors.
C19_Witness ==
    /\ Parsed
    /\ Source = UnterminatedHash
    /\ parser.errors # <<>>
    /\ parser.lexer.position > Len(Source) + 2

(***************************************************************************)
(* C20: blocks and the end of the input.                                   *)
(***************************************************************************)
\* C20: a parse that records no error closed every block it opened with a
\* "}" of the input (the consequence and the alternative of an if, the body
\* of a function); a block that the end of the input ends records an error.
C20_ErrorFreeBlocksClosed ==
    ParsedWithoutErrors =>
        \A i \in EventsOf("parseBlockStatement") :
            /\ parser.trace[i].ok
            /\ parser.trace[i].cur1.Type = token_RBRACE

(***************************************************************************)
(* C21: the parameters of a function literal.                              *)
(***************************************************************************)
\* C21: a parse that records no error built every parameter of every
\* function literal from a token of kind IDENT; a parameter list that holds
\* another token records an error.
C21_ParametersAreIdentifiers ==
    ParsedWithoutErrors =>
        \A i \in EventsOf("parseFunctionParameters") :
            \A k \in 1..Len(parser.trace[i].ret.elems) :
                parser.trace[i].ret.elems[k].Token.Type = token_IDENT

(***************************************************************************)
(* C22: the commas of a hash literal.                                      *)
(***************************************************************************)
\* C22: in a parse that records no error every , of a hash literal (the
\* only token that expectPeek(token.COMMA) accepts) is followed by another
\* key : value entry, never by the closing }: {1: 1,} records an error.
C22_HashCommaHasEntry ==
    ParsedWithoutErrors =>
        \A i \in EventsOf("expectPeek") :
            (parser.trace[i].want = token_COMMA /\ parser.trace[i].ok) =>
                parser.trace[i].peek1.Type # token_RBRACE

(***************************************************************************)
(* C23: termination of the earlier parser.                                 *)
(***************************************************************************)
\* C23: ParseProgram of the earlier parser returns on every input, also on
\* a let statement or a return statement that no ; follows before the end
\* of the input: every run reaches "done", and the skipping loop of a let or
\* return statement never stands at the end of the input, where every
\* further token is EOF and the loop cannot end.
C23_EarlierTerminates ==
    /\ <>(pc = "done")
    /\ [](pc \in {"skipLet", "skipReturn"} => ~curTokenIs(parser, token_EOF))

(***************************************************************************)
(* C24: the one-token lookahead.                                           *)
(***************************************************************************)
\* cur and peek are the last two of the pos tokens read from the lexer.
Lookahead(cur, peek, pos) ==
    /\ pos >= 2
    /\ cur = TokenAt(pos - 1)
    /\ peek = TokenAt(pos)

\* C24: after New curToken is the first token of the stream and peekToken
\* the second; at every point of the parse peekToken is the token that
\* follows curToken in the stream; the lexer moves by nextToken only, one
\* token a call (an expectPeek reads one token when it succeeds and none
\* when it fails, an advance of parseExpression reads one), and never back.
C24_OneTokenLookahead ==
    /\ [](/\ Lookahead(parser.curToken, parser.peekToken, parser.lexer.position)
          /\ pc = "New" => parser.lexer.position = 2
          /\ \A i \in 1..Len(parser.trace) :
                LET e == parser.trace[i]
                IN /\ Lookahead(e.cur0, e.peek0, e.pos0)
                   /\ Lookahead(e.cur1, e.peek1, e.pos1)
                   /\ e.pos1 >= e.pos0
                   /\ e.ev = "expectPeek" => e.pos1 = e.pos0 + (IF e.ok THEN 1 ELSE 0)
                   /\ e.ev = "advance" => e.pos1 = e.pos0 + 1)
    /\ [][/\ parser'.lexer.position >= parser.lexer.position
           /\ parser'.lexer.input = parser.lexer.input]_vars

\* let x 5; let = 10; let 838383; has been parsed to its end: expectations
\* that held and that failed, and every token read once.
C24_Witness ==
    /\ Parsed
    /\ Source = Example_three_lets
    /\ parser.lexer.position = Len(Source) + 2
    /\ \E i, j \in EventsOf("expectPeek") : parser.trace[i].ok /\ ~parser.trace[j].ok
====
